---- MODULE Spec2Model ----
(***************************************************************************)
(* Verification model of the metrax-backend donation API.                  *)
(*                                                                         *)
(* The backend is a stateless pass-through in front of a payment gateway   *)
(* and a mail provider.  The state of the model is the gateway's store of  *)
(* payment intents, the webhook handlers' invocation counts, the receipt   *)
(* files on disk, and the last HTTP exchange (request, response and the    *)
(* external calls the handler issued while serving it).                    *)
(*                                                                         *)
(* JavaScript values are modelled as follows.                              *)
(*   - a number is n / 10^k, kept as the pair (n, k);                      *)
(*   - a string that is parsed (an amount, a signature header) is a        *)
(*     sequence of one-character strings;                                  *)
(*   - every other string is an atom, with trim / toLowerCase / the        *)
(*     validators given on the atoms of the input sets;                    *)
(*   - undefined is Absent, the booleans are BTrue and BFalse.             *)
(***************************************************************************)
EXTENDS Integers, Sequences, FiniteSets, TLC

VARIABLES
    inbox,        \* the requests in flight
    intents,      \* the gateway's payment intents: id -> [amount, status, donorName]
    last,         \* the last HTTP exchange: request, response, external calls
    handlerRuns,  \* webhook event id -> number of times a handler ran for it
    files,        \* paths of the files present under the upload directory
    clock,        \* Date.now()
    subscribers,  \* the e-mail addresses in newsletter-subscribers.json
    hits,         \* the payment rate limiter's store: client IP -> requests counted
    env,          \* NODE_ENV of the running process
    served,       \* <<client IP, ticks ago>> -> requests that reached a payment handler
    projects,     \* the projects table: id -> [amount_raised in hundredths, supporters]
    expressions,  \* the expressions of interest held in memory
    nextId,       \* the id the next expression of interest gets
    proc,         \* the server process: its HTTP server, timers and exit
    uploadDir     \* the receipt directory: whether it exists, and where mkdir stands

\* the projects table when the server starts
InitialProjects == [id \in {"clean-water"} |-> [amount_raised |-> 10000, supporters |-> 3]]

\* the process once app.listen has returned: the server accepts connections,
\* no signal has arrived, no shutdown timer is set
ServerListening ==
    [state |-> "running", code |-> -1, cause |-> "none", listening |-> TRUE,
     connections |-> 0, closeCallbacks |-> 0, timers |-> {}, signals |-> <<>>]

\* the receipt directory once the mkdir started at construction has succeeded
DirectoryReady == [exists |-> TRUE, mkdir |-> "done"]

vars ==
    <<inbox, intents, last, handlerRuns, files, clock, subscribers, hits, env,
      served, projects, expressions, nextId, proc, uploadDir>>

----------------------------------------------------------------------------
(* Bounds *)

MaxAmountLen == 2      \* longest amount string submitted
MaxIntents == 1        \* payment intents the gateway issues in one behaviour
MaxDeliveries == 2     \* handler runs counted per webhook event
MaxClock == 3          \* clock ticks
MaxReceipts == 3       \* receipt files written in one behaviour
MaxOverLimit == 1      \* requests counted beyond a rate limit in one window

----------------------------------------------------------------------------
(* JavaScript values *)

Absent == "<undefined>"
BTrue == "<true>"
BFalse == "<false>"

NumberT == "number"
StringT == "string"
NaNT == "NaN"
UndefinedT == "undefined"

Num(n, k) == [t |-> NumberT, n |-> n, k |-> k, s |-> <<>>]
Str(s) == [t |-> StringT, n |-> 0, k |-> 0, s |-> s]
NaN == [t |-> NaNT, n |-> 0, k |-> 0, s |-> <<>>]
Undef == [t |-> UndefinedT, n |-> 0, k |-> 0, s |-> <<>>]

RECURSIVE Pow10(_)
Pow10(k) == IF k = 0 THEN 1 ELSE 10 * Pow10(k - 1)

Digits == {"0", "1", "2", "3", "4", "5", "6", "7", "8", "9"}

DigitVal(c) ==
    CASE c = "0" -> 0 [] c = "1" -> 1 [] c = "2" -> 2 [] c = "3" -> 3
      [] c = "4" -> 4 [] c = "5" -> 5 [] c = "6" -> 6 [] c = "7" -> 7
      [] c = "8" -> 8 [] c = "9" -> 9

\* number of leading decimal digits of s
RECURSIVE LeadingDigits(_)
LeadingDigits(s) ==
    IF s = <<>> \/ Head(s) \notin Digits THEN 0 ELSE 1 + LeadingDigits(Tail(s))

\* value of a sequence of decimal digits
RECURSIVE DigitsValue(_)
DigitsValue(s) ==
    IF s = <<>> THEN 0
    ELSE DigitVal(s[Len(s)]) + 10 * DigitsValue(SubSeq(s, 1, Len(s) - 1))

\* the characters of s that satisfy keep, in order
RECURSIVE FilterChars(_, _)
FilterChars(s, keep) ==
    IF s = <<>> THEN <<>>
    ELSE (IF Head(s) \in keep THEN <<Head(s)>> ELSE <<>>) \o FilterChars(Tail(s), keep)

\* parseFloat on a string: optional sign, digits, optional fraction; the
\* longest numeric prefix is taken and the rest ignored; NaN without a digit
ParseFloat(s) ==
    LET signed == s # <<>> /\ Head(s) \in {"-", "+"}
        neg == s # <<>> /\ Head(s) = "-"
        body == IF signed THEN Tail(s) ELSE s
        il == LeadingDigits(body)
        rest == SubSeq(body, il + 1, Len(body))
        fl == IF rest # <<>> /\ Head(rest) = "." THEN LeadingDigits(Tail(rest)) ELSE 0
        ip == DigitsValue(SubSeq(body, 1, il))
        fp == DigitsValue(SubSeq(rest, 2, fl + 1))
        mag == ip * Pow10(fl) + fp
    IN IF il = 0 /\ fl = 0 THEN NaN
       ELSE Num(IF neg THEN 0 - mag ELSE mag, fl)

\* parseFloat(value): a number is returned as it is
ParseFloatValue(v) ==
    CASE v.t = NumberT -> v
      [] v.t = StringT -> ParseFloat(v.s)
      [] OTHER -> NaN

\* Math.round(amount * 100): nearest integer, halves towards +infinity
ToCents(v) == (2 * 100 * v.n + Pow10(v.k)) \div (2 * Pow10(v.k))

\* !value for an amount
FalsyAmount(v) ==
    \/ v.t \in {NaNT, UndefinedT}
    \/ v.t = NumberT /\ v.n = 0
    \/ v.t = StringT /\ v.s = <<>>

----------------------------------------------------------------------------
(* config.validation *)

minDonationAmount == 1
maxDonationAmount == 10000

\* min <= v <= max for a number v
InRange(v) ==
    /\ v.n >= minDonationAmount * Pow10(v.k)
    /\ v.n <= maxDonationAmount * Pow10(v.k)

\* validateAmount
validateAmount(amount) == amount.t = NumberT /\ InRange(amount)

\* validator.isFloat's pattern: [sign] [digits] [. digits]
MatchesFloat(s) ==
    LET signed == s # <<>> /\ Head(s) \in {"-", "+"}
        body == IF signed THEN Tail(s) ELSE s
        il == LeadingDigits(body)
        rest == SubSeq(body, il + 1, Len(body))
    IN \/ rest = <<>>
       \/ Head(rest) = "." /\ LeadingDigits(Tail(rest)) = Len(rest) - 1

\* min <= v for a number v
AtLeastMin(v) == v.n >= minDonationAmount * Pow10(v.k)

\* validator.isFloat(toString(value), { min: 1.0 [, max: 10000.0] }); a number
\* of the model prints as plain decimal digits
isFloat(v, withMax) ==
    CASE v.t = NumberT -> IF withMax THEN InRange(v) ELSE AtLeastMin(v)
      [] v.t = StringT ->
            /\ MatchesFloat(v.s)
            /\ v.s \notin {<<>>, <<".">>, <<"-">>, <<"+">>}
            /\ ParseFloat(v.s).t = NumberT
            /\ IF withMax THEN InRange(ParseFloat(v.s)) ELSE AtLeastMin(ParseFloat(v.s))
      [] OTHER -> FALSE

\* validator.isNumeric(toString(value)): [sign] [digits .] digits
isNumeric(v) ==
    CASE v.t = NumberT -> TRUE
      [] v.t = StringT ->
            LET signed == v.s # <<>> /\ Head(v.s) \in {"-", "+"}
                body == IF signed THEN Tail(v.s) ELSE v.s
                il == LeadingDigits(body)
                rest == SubSeq(body, il + 1, Len(body))
            IN \/ il > 0 /\ rest = <<>>
               \/ /\ rest # <<>> /\ Head(rest) = "."
                  /\ Len(rest) > 1 /\ LeadingDigits(Tail(rest)) = Len(rest) - 1
      [] OTHER -> FALSE

----------------------------------------------------------------------------
(* Atomic strings: the atoms the requests are built from, and the string    *)
(* operations of the code tabulated on them                                 *)

Null == "<null>"
LongMessage == "<a message of 501 characters>"
GoodUuid == "123e4567-e89b-42d3-a456-426614174000"

\* ids the gateway can issue: its documented pi_ form, and ids shaped as UUIDs
PiIds == <<"pi_1", "pi_2", "pi_3">>
UuidIds == <<"00000000-0000-4000-8000-000000000001",
             "00000000-0000-4000-8000-000000000002",
             "00000000-0000-4000-8000-000000000003">>
IdShapes == {"pi_", "uuid"}

\* typeof value === 'string'
IsString(v) == v \notin {Absent, Null, BTrue, BFalse}

\* !!value
Truthy(v) == v \notin {Absent, Null, BFalse, ""}

\* String.prototype.trim
Trim(s) ==
    CASE s = " " -> ""
      [] s = " Ann@Ex.org " -> "Ann@Ex.org"
      [] s = " general " -> "general"
      [] OTHER -> s

\* String.prototype.toLowerCase
ToLowerCase(s) ==
    CASE s = "Ann@Ex.org" -> "ann@ex.org"
      [] s = " Ann@Ex.org " -> " ann@ex.org "
      [] s = "General" -> "general"
      [] OTHER -> s

\* String.prototype.length; every other atom is shorter than each limit
StrLen(s) ==
    CASE s = "" -> 0
      [] s = " " -> 1
      [] s = LongMessage -> 501
      [] s = "Hi" -> 2
      [] s = "<a message of 2001 characters>" -> 2001
      [] OTHER -> 12

\* validator.isEmail
isEmail(s) == s \in {"ann@ex.org", "Ann@Ex.org"}

\* validator.isUUID
isUUID(s) == s = GoodUuid \/ \E i \in DOMAIN UuidIds : s = UuidIds[i]

\* /^[a-z0-9-]{3,64}$/i
FRIENDLY_PROJECT_ID_REGEX(s) == s \in {"general", "General", "clean-water", GoodUuid}

\* /^[\p{L}\s\-'\.]+$/u
NameRegex(s) == s \in {"Bob", "Anonymous", " "}

maxMessageLength == 500
maxNameLength == 100
maxEmailLength == 254

\* validateEmail
validateEmail(email) ==
    /\ Truthy(email) /\ IsString(email)
    /\ isEmail(email) /\ StrLen(email) <= maxEmailLength

\* validateName
validateName(name) ==
    /\ Truthy(name) /\ IsString(name)
    /\ StrLen(Trim(name)) > 0
    /\ StrLen(Trim(name)) <= maxNameLength
    /\ NameRegex(Trim(name))

\* validateMessage
validateMessage(message) ==
    \/ ~Truthy(message)
    \/ IsString(message) /\ StrLen(message) <= maxMessageLength

\* validateProjectId
validateProjectId(projectId) ==
    /\ Truthy(projectId) /\ IsString(projectId)
    /\ \/ ToLowerCase(Trim(projectId)) = "general"
       \/ isUUID(Trim(projectId))
       \/ FRIENDLY_PROJECT_ID_REGEX(Trim(projectId))

\* validateAnonymous
validateAnonymous(anonymous) == anonymous \in {BTrue, BFalse}

----------------------------------------------------------------------------
(* POST /create-payment-intent: payload normalisation *)

\* !!body.anonymous : a non-empty string is truthy, whatever it spells
TruthyFlag(a) == a \notin {Absent, Null, BFalse, ""}

\* normalizeDonationPayload, for the fields a request of the model carries
\* (projectSlug, project_slug, firstName, lastName, email, comment and
\* project_title are never sent)
normalizeDonationPayload(body) ==
    LET projectId1 == IF ~Truthy(body.projectId)
                      THEN (IF Truthy(body.project_id) THEN body.project_id ELSE Null)
                      ELSE body.projectId
        projectId2 == IF IsString(projectId1) THEN Trim(projectId1) ELSE projectId1
        donorName1 == IF ~Truthy(body.donorName) /\ Truthy(body.donor_name)
                      THEN body.donor_name ELSE body.donorName
        donorName2 == IF IsString(donorName1) THEN Trim(donorName1) ELSE donorName1
        donorName3 == IF TruthyFlag(body.anonymous)
                         /\ (~Truthy(donorName2) \/ Trim(donorName2) = "")
                      THEN "Anonymous" ELSE donorName2
        donorEmail1 == IF ~Truthy(body.donorEmail)
                       THEN (IF Truthy(body.donor_email) THEN body.donor_email ELSE Null)
                       ELSE body.donorEmail
        donorEmail2 == IF IsString(donorEmail1) THEN ToLowerCase(Trim(donorEmail1))
                       ELSE donorEmail1
        anonymous1 == IF IsString(body.anonymous)
                         /\ ToLowerCase(body.anonymous) \in {"true", "false"}
                      THEN (IF ToLowerCase(body.anonymous) = "true" THEN BTrue ELSE BFalse)
                      ELSE body.anonymous
        anonymous2 == IF anonymous1 \in {Absent, Null} THEN BFalse ELSE anonymous1
        cleanedAmount == ParseFloat(FilterChars(body.amount.s, Digits \cup {"."}))
        amount1 == IF body.amount.t = StringT /\ cleanedAmount.t # NaNT
                   THEN cleanedAmount ELSE body.amount
        message1 == IF ~Truthy(body.message) /\ Truthy(body.note)
                    THEN body.note ELSE body.message
        message2 == IF message1 \in {Absent, Null} THEN "" ELSE message1
    IN [body EXCEPT !.projectId = projectId2,
                    !.donorName = donorName3,
                    !.donorEmail = donorEmail2,
                    !.anonymous = anonymous2,
                    !.amount = amount1,
                    !.message = message2]

\* express-validator's toString(value) = '' for the atoms that are not strings
IsEmptyValue(v) == v \in {Absent, Null, ""}

\* isBoolean on toString(value)
isBoolean(v) == v \in {BTrue, BFalse, "true", "false", "1", "0"}

\* the projectId custom validator of the route
RouteProjectIdOk(value) ==
    /\ Truthy(value) /\ IsString(value)
    /\ \/ ToLowerCase(Trim(value)) = "general"
       \/ isUUID(Trim(value))
       \/ FRIENDLY_PROJECT_ID_REGEX(Trim(value))

\* the express-validator chain of the route: the set of fields with an error
CreateValidationErrors(b) ==
    (IF isFloat(b.amount, TRUE) THEN {} ELSE {"amount"})
    \cup (IF RouteProjectIdOk(b.projectId) THEN {} ELSE {"projectId"})
    \cup (IF ~TruthyFlag(b.anonymous)
             /\ (IsEmptyValue(b.donorName) \/ StrLen(b.donorName) > 100)
          THEN {"donorName"} ELSE {})
    \cup (IF Truthy(b.donorName) /\ StrLen(b.donorName) > 100
          THEN {"donorName"} ELSE {})
    \cup (IF IsString(b.donorEmail) /\ isEmail(b.donorEmail) THEN {} ELSE {"donorEmail"})
    \cup (IF b.anonymous # Absent /\ ~isBoolean(b.anonymous) THEN {"anonymous"} ELSE {})
    \cup (IF b.message # Absent /\ b.message # Null /\ StrLen(b.message) > 500
          THEN {"message"} ELSE {})

\* donationData as the route builds it from the validated body
DonationDataOf(b) ==
    [amount |-> ParseFloatValue(b.amount),
     projectId |-> b.projectId,
     donorName |-> IF TruthyFlag(b.anonymous) THEN "Anonymous"
                   ELSE (IF Truthy(b.donorName) THEN b.donorName ELSE "Anonymous"),
     donorEmail |-> b.donorEmail,
     anonymous |-> IF TruthyFlag(b.anonymous) THEN b.anonymous ELSE BFalse,
     message |-> IF Truthy(b.message) THEN b.message ELSE ""]

\* validateDonationData of utils/validation: the error messages
validateDonationData(d) ==
    (IF FalsyAmount(d.amount) THEN {"Amount is required"}
     ELSE IF ~validateAmount(d.amount) THEN {"Amount must be between $1 and $10000"}
     ELSE {})
    \cup (IF ~Truthy(d.projectId) THEN {"Project ID is required"}
          ELSE IF ~validateProjectId(d.projectId) THEN {"Invalid project ID format"}
          ELSE {})
    \cup (IF ~Truthy(d.donorEmail) THEN {"Donor email is required"}
          ELSE IF ~validateEmail(d.donorEmail) THEN {"Invalid email format"}
          ELSE {})
    \cup (IF ~TruthyFlag(d.anonymous)
          THEN (IF ~Truthy(d.donorName) \/ Trim(d.donorName) = ""
                THEN {"Donor name is required for non-anonymous donations"}
                ELSE IF ~validateName(d.donorName) THEN {"Invalid donor name format"}
                ELSE {})
          ELSE (IF Truthy(d.donorName) /\ d.donorName # "Anonymous"
                   /\ ~validateName(d.donorName)
                THEN {"Invalid donor name format"} ELSE {}))
    \cup (IF Truthy(d.message) /\ ~validateMessage(d.message)
          THEN {"Message must be less than 500 characters"} ELSE {})
    \cup (IF d.anonymous # Absent /\ ~validateAnonymous(d.anonymous)
          THEN {"Invalid anonymous flag"} ELSE {})

----------------------------------------------------------------------------
(* The payment gateway, as the backend sees it *)

GatewayErrors == {"StripeCardError", "StripeInvalidRequestError",
                  "StripeAPIError", "StripeConnectionError"}
GatewayOutcomes == {"ok"} \cup GatewayErrors

IntentStatuses == {"requires_payment_method", "requires_action", "succeeded"}

\* the id of the next payment intent, in the shape the gateway picks
NextId(shape) ==
    LET n == Cardinality(DOMAIN intents) + 1
    IN IF shape = "pi_" THEN PiIds[n] ELSE UuidIds[n]

\* an external call issued while serving a request
Call(api, id, amount, donorName, donorEmail) ==
    [api |-> api, id |-> id, amount |-> amount,
     donorName |-> donorName, donorEmail |-> donorEmail]

\* the gateway's record of intent id as a handler running now would fetch it
Seen(id) ==
    IF id \in DOMAIN intents
    THEN [known |-> TRUE, amount |-> intents[id].amount, status |-> intents[id].status]
    ELSE [known |-> FALSE, amount |-> 0, status |-> ""]

NoIntent == [known |-> FALSE, amount |-> 0, status |-> ""]

NoExchange ==
    [endpoint |-> "none", status |-> 0, success |-> FALSE, error |-> "",
     calls |-> <<>>, seen |-> NoIntent, gateway |-> <<>>]

\* the response and the calls of one exchange; seen is the gateway's record of
\* the intent the request names, as it was when the handler ran, and gateway
\* what the gateway answered to each call, for the handlers that record it
Exchange(endpoint, body, status, success, error, calls) ==
    [endpoint |-> endpoint, body |-> body, status |-> status,
     success |-> success, error |-> error, calls |-> calls, seen |-> NoIntent,
     gateway |-> <<>>]

----------------------------------------------------------------------------
(* StripeService.createPaymentIntent and its route *)

\* StripeService.validateDonationData: the error messages
StripeValidateDonationData(d) ==
    (IF FalsyAmount(d.amount) THEN {"Amount is required"}
     ELSE IF ~validateAmount(d.amount) THEN {"Amount must be between $1 and $10000"}
     ELSE {})
    \cup (IF ~Truthy(d.projectId) THEN {"Project ID is required"} ELSE {})
    \cup (IF ~Truthy(d.donorName) /\ ~TruthyFlag(d.anonymous)
          THEN {"Donor name is required for non-anonymous donations"} ELSE {})
    \cup (IF ~Truthy(d.donorEmail) THEN {"Donor email is required"}
          ELSE IF ~validateEmail(d.donorEmail) THEN {"Invalid email format"}
          ELSE {})
    \cup (IF Truthy(d.donorName) /\ StrLen(d.donorName) > maxNameLength
          THEN {"Donor name must be less than 100 characters"} ELSE {})
    \cup (IF Truthy(d.donorEmail) /\ StrLen(d.donorEmail) > maxEmailLength
          THEN {"Email must be less than 254 characters"} ELSE {})
    \cup (IF Truthy(d.message) /\ StrLen(d.message) > maxMessageLength
          THEN {"Message must be less than 500 characters"} ELSE {})

\* the message of the error createPaymentIntent rethrows
CreateErrorMessage(type) ==
    CASE type = "StripeCardError" -> "Card error: <provider message>"
      [] type = "StripeInvalidRequestError" -> "Invalid payment request"
      [] type = "StripeAPIError" -> "Payment service temporarily unavailable"
      [] OTHER -> "Payment processing failed"

\* CreateCall with the name of an anonymous donor left blank
CreateCall_BlankAnonymous(d) ==
    Call("paymentIntents.create", "", ToCents(d.amount),
         IF TruthyFlag(d.anonymous) THEN "" ELSE d.donorName,
         d.donorEmail)

\* the arguments of stripe.paymentIntents.create
CreateCall(d) ==
    Call("paymentIntents.create", "", ToCents(d.amount),
         IF TruthyFlag(d.anonymous) THEN "Anonymous" ELSE d.donorName,
         d.donorEmail)

\* POST /create-payment-intent (normalizeDonationPayload, the validation chain,
\* the handler, StripeService.createPaymentIntent); gw is what the gateway
\* answers and shape the form of the id it issues
CreatePaymentIntent(body, gw, shape) ==
    LET b == normalizeDonationPayload(body)
        d == DonationDataOf(b)
        ep == "create-payment-intent"
    IN IF CreateValidationErrors(b) # {}
       THEN /\ last' = Exchange(ep, body, 400, FALSE, "Validation failed", <<>>)
            /\ UNCHANGED intents
       ELSE IF validateDonationData(d) # {}
       THEN /\ last' = Exchange(ep, body, 400, FALSE, "Invalid donation data", <<>>)
            /\ UNCHANGED intents
       ELSE IF StripeValidateDonationData(d) # {}
       THEN /\ last' = Exchange(ep, body, 500, FALSE, CreateErrorMessage("Error"), <<>>)
            /\ UNCHANGED intents
       ELSE IF gw = "ok"
       THEN /\ Cardinality(DOMAIN intents) < MaxIntents
            /\ intents' = intents @@ (NextId(shape) :>
                              [amount |-> ToCents(d.amount),
                               status |-> "requires_payment_method",
                               donorName |-> CreateCall(d).donorName])
            /\ last' = [Exchange(ep, body, 200, TRUE, "", <<CreateCall(d)>>)
                          EXCEPT !.calls[1].id = NextId(shape)]
       ELSE /\ last' = [Exchange(ep, body, 500, FALSE, CreateErrorMessage(gw),
                                 <<CreateCall(d)>>)
                           EXCEPT !.gateway = <<gw>>]
            /\ UNCHANGED intents

----------------------------------------------------------------------------
(* The requests submitted to POST /create-payment-intent *)

AmountChars == {"-", "5", "0", "."}

RECURSIVE StringsOver(_, _)
StringsOver(chars, n) ==
    IF n = 0 THEN {<<>>}
    ELSE LET shorter == StringsOver(chars, n - 1)
         IN shorter \cup {Append(s, c) : s \in shorter, c \in chars}

AmountNumbers ==
    {Num(0, 0), Num(50, 2), Num(99, 2), Num(1, 0), Num(2550, 2), Num(10000, 0),
     Num(1000001, 2), Num(0 - 50, 0)}

AmountInputs ==
    {Undef} \cup AmountNumbers
    \cup {Str(s) : s \in StringsOver(AmountChars, MaxAmountLen)}

CreateBodies ==
    [amount : AmountInputs,
     projectId : {Absent, "general", "bad id!"},
     project_id : {Absent},
     donorName : {Absent, "", " ", "Bob", "B0b"},
     donor_name : {Absent, "Bob"},
     donorEmail : {Absent, "ann@ex.org", " Ann@Ex.org ", "not-an-email"},
     donor_email : {Absent},
     anonymous : {Absent, BTrue, BFalse, "true", "false", "yes"},
     message : {Absent, "hi", LongMessage},
     note : {Absent}]

\* one request is in flight; the endpoint serves it
ServeCreatePaymentIntent ==
    /\ inbox # {}
    /\ \E body \in inbox, gw \in GatewayOutcomes, shape \in IdShapes :
          CreatePaymentIntent(body, gw, shape)
    /\ inbox' = {}
    /\ UNCHANGED <<handlerRuns, files, clock, subscribers, hits, env, served, projects, expressions, nextId, proc, uploadDir>>

InitCreate ==
    /\ inbox \in {{body} : body \in CreateBodies}
    /\ intents = <<>>
    /\ last = NoExchange
    /\ handlerRuns = <<>>
    /\ files = {}
    /\ clock = 0
    /\ subscribers = <<>>
    /\ hits = <<>>
    /\ env = "development"
    /\ served = <<>>
    /\ projects = InitialProjects
    /\ expressions = <<>>
    /\ nextId = 1
    /\ proc = ServerListening
    /\ uploadDir = DirectoryReady

NextCreate == ServeCreatePaymentIntent

SpecCreate == InitCreate /\ [][NextCreate]_vars

----------------------------------------------------------------------------
(* Claims on POST /create-payment-intent *)

\* a string a client would write for a number: [sign] digits [. digits]
IsNumericString(s) == MatchesFloat(s) /\ ParseFloat(s).t = NumberT

\* the amount is a number, or a numeric string, of a value outside [1, 10000]
AmountOutsideBounds(a) ==
    \/ a.t = NumberT /\ ~InRange(a)
    \/ a.t = StringT /\ IsNumericString(a.s) /\ ~InRange(ParseFloat(a.s))

\* the amount is a number, or a numeric string, of a value inside [1, 10000]
AmountInsideBounds(a) ==
    \/ a.t = NumberT /\ InRange(a)
    \/ a.t = StringT /\ IsNumericString(a.s) /\ InRange(ParseFloat(a.s))

GatewayCreateCalled ==
    \E i \in DOMAIN last.calls : last.calls[i].api = "paymentIntents.create"

\* C1: a create-payment-intent request whose amount, as submitted or as
\* normalised, lies outside [1.00, 10000.00] is answered 400 and reaches no
\* paymentIntents.create call.
C1_OutOfBoundsAmountRejected ==
    (/\ last.endpoint = "create-payment-intent"
     /\ \/ AmountOutsideBounds(last.body.amount)
        \/ AmountOutsideBounds(normalizeDonationPayload(last.body).amount))
    => (last.status = 400 /\ ~GatewayCreateCalled)

\* anonymous = true with no donor name, every other field valid
AnonymousNamelessRequest(body) ==
    /\ body.anonymous \in {BTrue, "true"}
    /\ body.donorName \in {Absent, "", " "}
    /\ AmountInsideBounds(body.amount)
    /\ validateProjectId(body.projectId)
    /\ IsString(body.donorEmail) /\ isEmail(ToLowerCase(Trim(body.donorEmail)))
    /\ validateMessage(body.message)

\* C8: an anonymous request without a donor name, otherwise valid, passes
\* validation and reaches the gateway with metadata donorName "Anonymous"; when
\* the gateway creates the intent the answer is 200 and the stored intent
\* carries donorName "Anonymous".
C8_AnonymousAccepted ==
    (last.endpoint = "create-payment-intent" /\ AnonymousNamelessRequest(last.body))
    => /\ last.status # 400
       /\ Len(last.calls) = 1
       /\ last.calls[1].api = "paymentIntents.create"
       /\ last.calls[1].donorName = "Anonymous"
       /\ last.status = 200 =>
             /\ last.success
             /\ last.calls[1].id \in DOMAIN intents
             /\ intents[last.calls[1].id].donorName = "Anonymous"

\* C8 witness: such a request, sent with a string flag and a blank name, was
\* served and its intent stored
C8_Witness ==
    /\ last.endpoint = "create-payment-intent"
    /\ AnonymousNamelessRequest(last.body)
    /\ last.body.anonymous = "true"
    /\ last.body.donorName = " "
    /\ last.status = 200
    /\ \E id \in DOMAIN intents : intents[id].donorName = "Anonymous"

----------------------------------------------------------------------------
(* Middleware in front of the refund and first confirm-payment routes *)

JsonType == "application/json"
FormType == "application/x-www-form-urlencoded"

\* xss(value) of sanitizeInput on a string
xss(s) ==
    CASE s = "<b>dup</b>" -> "&lt;b&gt;dup&lt;/b&gt;"
      [] OTHER -> s

\* sanitizeInput on one body field
sanitizeInput(v) == IF IsString(v) THEN xss(v) ELSE v

\* validateRequest: a body with keys must come as application/json
validateRequest(contentType, bodyHasKeys) ==
    ~bodyHasKeys \/ contentType = JsonType

----------------------------------------------------------------------------
(* StripeService.getPaymentIntent, createRefund and POST /refund *)

RefundReasons == {"requested_by_customer", "duplicate", "fraudulent"}

\* validateRefundData of utils/validation: the error messages
validateRefundData(refundData) ==
    (IF ~Truthy(refundData.paymentIntentId) THEN {"Payment intent ID is required"}
     ELSE IF ~isUUID(refundData.paymentIntentId)
     THEN {"Invalid payment intent ID format"}
     ELSE {})
    \cup (IF ~FalsyAmount(refundData.amount) /\ ~validateAmount(refundData.amount)
          THEN {"Refund amount must be between $1 and $10000"} ELSE {})
    \cup (IF Truthy(refundData.reason) /\ refundData.reason \notin RefundReasons
          THEN {"Invalid refund reason"} ELSE {})

\* the express-validator chain of POST /refund
RefundValidationErrors(b) ==
    (IF IsString(b.paymentIntentId) THEN {} ELSE {"paymentIntentId"})
    \cup (IF b.amount.t # UndefinedT /\ ~isFloat(b.amount, FALSE)
          THEN {"amount"} ELSE {})
    \cup (IF b.reason # Absent /\ b.reason \notin RefundReasons
          THEN {"reason"} ELSE {})

\* stripe.paymentIntents.retrieve as getPaymentIntent issues it
RetrieveCall(id) == Call("paymentIntents.retrieve", id, 0, "", "")

\* what stripe.paymentIntents.retrieve answers: the record, the provider's
\* report that no such id exists, or a failure of the provider itself
RetrieveOutcome(id, gw) ==
    IF gw # "ok" THEN gw
    ELSE IF id \in DOMAIN intents THEN "ok" ELSE "resource_missing"

\* getPaymentIntent succeeds when the gateway answers and knows the id
Retrieved(id, gw) == gw = "ok" /\ id \in DOMAIN intents

\* stripe.refunds.create as createRefund issues it; amount 0 stands for
\* undefined, the full refund
RefundCall(id, amount) ==
    Call("refunds.create", id,
         IF FalsyAmount(amount) THEN 0 ELSE ToCents(amount), "", "")

\* POST /refund (sanitizeInput, validateRequest, the validation chain, the
\* handler, getPaymentIntent, createRefund)
Refund(body, gwRetrieve, gwRefund) ==
    LET ep == "refund"
        b == [body EXCEPT !.paymentIntentId = sanitizeInput(@),
                          !.reason = sanitizeInput(@)]
        hasKeys == b.paymentIntentId # Absent \/ b.reason # Absent
                      \/ b.amount.t # UndefinedT
        refundData == [paymentIntentId |-> b.paymentIntentId,
                       amount |-> b.amount,
                       reason |-> IF Truthy(b.reason) THEN b.reason
                                  ELSE "requested_by_customer"]
        id == refundData.paymentIntentId
        answer(status, success, error, calls) ==
            [Exchange(ep, body, status, success, error, calls)
                EXCEPT !.seen = Seen(body.paymentIntentId),
                       !.gateway =
                          IF calls = <<>> THEN <<>>
                          ELSE IF Len(calls) = 1
                          THEN <<RetrieveOutcome(id, gwRetrieve)>>
                          ELSE <<"ok", gwRefund>>]
    IN /\ UNCHANGED intents
       /\ last' =
            IF ~validateRequest(body.contentType, hasKeys)
            THEN answer(400, FALSE, "Content-Type must be application/json", <<>>)
            ELSE IF RefundValidationErrors(b) # {}
            THEN answer(400, FALSE, "Validation failed", <<>>)
            ELSE IF validateRefundData(refundData) # {}
            THEN answer(400, FALSE, "Invalid refund data", <<>>)
            ELSE IF ~Retrieved(id, gwRetrieve)
            THEN answer(500, FALSE, "Payment not found", <<RetrieveCall(id)>>)
            ELSE IF gwRefund # "ok"
            THEN answer(500, FALSE, "Refund failed: <provider message>",
                        <<RetrieveCall(id), RefundCall(id, refundData.amount)>>)
            ELSE answer(200, TRUE, "",
                        <<RetrieveCall(id), RefundCall(id, refundData.amount)>>)

----------------------------------------------------------------------------
(* POST /confirm-payment, the version verifying against the gateway record *)

\* the express-validator chain; donorName, anonymous and message are optional
\* and not sent
ConfirmValidationErrors(b) ==
    (IF ~IsEmptyValue(b.paymentIntentId) /\ IsString(b.paymentIntentId)
     THEN {} ELSE {"paymentIntentId"})
    \cup (IF ~IsEmptyValue(b.projectId) /\ IsString(b.projectId)
          THEN {} ELSE {"projectId"})
    \cup (IF isNumeric(b.amount) /\ isFloat(b.amount, TRUE) THEN {} ELSE {"amount"})
    \cup (IF IsString(b.donorEmail) /\ isEmail(b.donorEmail) THEN {} ELSE {"donorEmail"})

ConfirmPayment(body, gw) ==
    LET ep == "confirm-payment"
        id == body.paymentIntentId
        answer(status, success, error, calls) ==
            [Exchange(ep, body, status, success, error, calls)
                EXCEPT !.seen = Seen(id)]
    IN /\ UNCHANGED intents
       /\ last' =
            IF ConfirmValidationErrors(body) # {}
            THEN answer(400, FALSE, "Validation failed", <<>>)
            ELSE IF ~Retrieved(id, gw)
            THEN answer(500, FALSE, "Payment not found", <<RetrieveCall(id)>>)
            ELSE IF intents[id].status # "succeeded"
            THEN answer(400, FALSE, "Payment not completed", <<RetrieveCall(id)>>)
            ELSE IF intents[id].amount # ToCents(ParseFloatValue(body.amount))
            THEN answer(400, FALSE, "Amount mismatch", <<RetrieveCall(id)>>)
            ELSE answer(200, TRUE, "", <<RetrieveCall(id)>>)

----------------------------------------------------------------------------
(* POST /confirm-payment, the version built on StripeService.confirmPayment *)

\* stripe.paymentIntents.confirm as confirmPayment issues it
ConfirmCall(id) == Call("paymentIntents.confirm", id, 0, "", "")

\* the statuses the gateway answers a confirm call with; a declined card is
\* an error, not an answer
ConfirmAnswers == {"requires_action", "succeeded"}

ConfirmPaymentV1(body, gwConfirm, newStatus, gwRetrieve) ==
    LET ep == "confirm-payment-v1"
        b == [body EXCEPT !.paymentIntentId = sanitizeInput(@),
                          !.paymentMethodId = sanitizeInput(@)]
        id == b.paymentIntentId
        hasKeys == b.paymentIntentId # Absent \/ b.paymentMethodId # Absent
        confirmed == [intents EXCEPT ![id].status = newStatus]
        answer(status, success, error, calls, seen) ==
            [Exchange(ep, body, status, success, error, calls)
                EXCEPT !.seen = seen,
                       !.gateway =
                          IF calls = <<>> THEN <<>>
                          ELSE IF Len(calls) = 1
                          THEN <<IF gwConfirm # "ok" THEN gwConfirm
                                 ELSE "resource_missing">>
                          ELSE <<"ok", gwRetrieve>>]
    IN IF ~validateRequest(body.contentType, hasKeys)
       THEN /\ last' = answer(400, FALSE, "Content-Type must be application/json",
                              <<>>, Seen(id))
            /\ UNCHANGED intents
       ELSE IF ~IsString(b.paymentIntentId) \/ ~IsString(b.paymentMethodId)
       THEN /\ last' = answer(400, FALSE, "Validation failed", <<>>, Seen(id))
            /\ UNCHANGED intents
       ELSE IF gwConfirm # "ok" \/ id \notin DOMAIN intents
       THEN /\ last' = answer(500, FALSE,
                              "Payment confirmation failed: <provider message>",
                              <<ConfirmCall(id)>>, Seen(id))
            /\ UNCHANGED intents
       ELSE /\ intents' = confirmed
            /\ last' =
                 IF gwRetrieve # "ok"
                 THEN answer(500, FALSE, "Payment not found",
                             <<ConfirmCall(id), RetrieveCall(id)>>,
                             [known |-> TRUE, amount |-> intents[id].amount,
                              status |-> newStatus])
                 ELSE answer(200, TRUE, "",
                             <<ConfirmCall(id), RetrieveCall(id)>>,
                             [known |-> TRUE, amount |-> intents[id].amount,
                              status |-> newStatus])

----------------------------------------------------------------------------
(* POST /send-notification and POST /send-confirmation *)

MailOutcomes == {"ok", "error"}

\* resend.emails.send; the call carries the donor's address
MailCall(donorEmail) == Call("emails.send", "", 0, "", donorEmail)

\* !donorEmail || !amount || !projectTitle
MissingDonationFields(b) ==
    ~Truthy(b.donorEmail) \/ FalsyAmount(b.amount) \/ ~Truthy(b.projectTitle)

\* the route and ResendEmailService.sendDonationNotification (mail to the admin)
SendNotification(body, mail) ==
    /\ UNCHANGED intents
    /\ last' =
         IF MissingDonationFields(body)
         THEN Exchange("send-notification", body, 400, FALSE,
                       "Missing required fields: donorEmail, amount, projectTitle", <<>>)
         ELSE IF mail # "ok"
         THEN Exchange("send-notification", body, 500, FALSE,
                       "Failed to send donation notification",
                       <<MailCall(body.donorEmail)>>)
         ELSE Exchange("send-notification", body, 200, TRUE, "",
                       <<MailCall(body.donorEmail)>>)

\* the route and ResendEmailService.sendDonationConfirmation (mail to the donor)
SendConfirmation(body, mail) ==
    /\ UNCHANGED intents
    /\ last' =
         IF MissingDonationFields(body)
         THEN Exchange("send-confirmation", body, 400, FALSE,
                       "Missing required fields: donorEmail, amount, projectTitle", <<>>)
         ELSE IF mail # "ok"
         THEN Exchange("send-confirmation", body, 500, FALSE,
                       "Failed to send donation confirmation",
                       <<MailCall(body.donorEmail)>>)
         ELSE Exchange("send-confirmation", body, 200, TRUE, "",
                       <<MailCall(body.donorEmail)>>)

----------------------------------------------------------------------------
(* The donation endpoints in sequence *)

Init ==
    /\ inbox = {}
    /\ intents = <<>>
    /\ last = NoExchange
    /\ handlerRuns = <<>>
    /\ files = {}
    /\ clock = 0
    /\ subscribers = <<>>
    /\ hits = <<>>
    /\ env = "development"
    /\ served = <<>>
    /\ projects = InitialProjects
    /\ expressions = <<>>
    /\ nextId = 1
    /\ proc = ServerListening
    /\ uploadDir = DirectoryReady

\* ids a client can name: those the gateway may have issued, or none
IdInputs == {Absent} \cup {PiIds[i] : i \in 1..MaxIntents}
                     \cup {UuidIds[i] : i \in 1..MaxIntents}

PayAmounts == {Num(25, 0), Num(50, 0)}

PayCreateBodies ==
    [amount : PayAmounts,
     projectId : {"general"}, project_id : {Absent},
     donorName : {"Bob"}, donor_name : {Absent},
     donorEmail : {"ann@ex.org", "not-an-email"}, donor_email : {Absent},
     anonymous : {BFalse}, message : {Absent}, note : {Absent}]

RefundBodies ==
    [contentType : {JsonType, FormType},
     paymentIntentId : IdInputs,
     amount : {Undef, Num(20000, 0)} \cup PayAmounts,
     reason : {Absent, "because"}]

ConfirmBodies ==
    [paymentIntentId : IdInputs,
     projectId : {"general"},
     amount : {Undef, Str(<<"5", "0">>)} \cup PayAmounts,
     donorEmail : {"ann@ex.org", "not-an-email"}]

ConfirmV1Bodies ==
    [contentType : {JsonType, FormType},
     paymentIntentId : IdInputs,
     paymentMethodId : {Absent, "pm_card_visa"}]

MailBodies ==
    [donorEmail : {Absent, "ann@ex.org", "not-an-email"},
     amount : {Undef, Num(25, 0)},
     projectTitle : {Absent, "Clean Water"}]

PostCreatePaymentIntent ==
    /\ \E body \in PayCreateBodies, gw \in {"ok", "StripeAPIError"}, shape \in IdShapes :
          CreatePaymentIntent(body, gw, shape)
    /\ UNCHANGED <<inbox, handlerRuns, files, clock, subscribers, hits, env, served, projects, expressions, nextId, proc, uploadDir>>

\* the payer completes, or fails to complete, the payment at the gateway
GatewayAdvance ==
    /\ \E id \in DOMAIN intents, st \in IntentStatuses :
          /\ st # intents[id].status
          /\ intents' = [intents EXCEPT ![id].status = st]
    /\ UNCHANGED <<inbox, last, handlerRuns, files, clock, subscribers, hits, env, served, projects, expressions, nextId, proc, uploadDir>>

PostRefund ==
    /\ \E body \in RefundBodies, gwRetrieve \in {"ok", "StripeAPIError"},
          gwRefund \in {"ok", "StripeInvalidRequestError", "StripeAPIError"} :
          Refund(body, gwRetrieve, gwRefund)
    /\ UNCHANGED <<inbox, handlerRuns, files, clock, subscribers, hits, env, served, projects, expressions, nextId, proc, uploadDir>>

PostConfirmPayment ==
    /\ \E body \in ConfirmBodies, gw \in {"ok", "StripeAPIError"} :
          ConfirmPayment(body, gw)
    /\ UNCHANGED <<inbox, handlerRuns, files, clock, subscribers, hits, env, served, projects, expressions, nextId, proc, uploadDir>>

PostConfirmPaymentV1 ==
    /\ \E body \in ConfirmV1Bodies, gwConfirm \in {"ok", "StripeCardError"},
          newStatus \in ConfirmAnswers, gwRetrieve \in {"ok", "StripeAPIError"} :
          ConfirmPaymentV1(body, gwConfirm, newStatus, gwRetrieve)
    /\ UNCHANGED <<inbox, handlerRuns, files, clock, subscribers, hits, env, served, projects, expressions, nextId, proc, uploadDir>>

PostSendNotification ==
    /\ \E body \in MailBodies, mail \in MailOutcomes : SendNotification(body, mail)
    /\ UNCHANGED <<inbox, handlerRuns, files, clock, subscribers, hits, env, served, projects, expressions, nextId, proc, uploadDir>>

PostSendConfirmation ==
    /\ \E body \in MailBodies, mail \in MailOutcomes : SendConfirmation(body, mail)
    /\ UNCHANGED <<inbox, handlerRuns, files, clock, subscribers, hits, env, served, projects, expressions, nextId, proc, uploadDir>>

NextRefund == PostCreatePaymentIntent \/ GatewayAdvance \/ PostRefund

SpecRefund == Init /\ [][NextRefund]_vars

NextDonations ==
    \/ PostCreatePaymentIntent
    \/ GatewayAdvance
    \/ PostConfirmPayment
    \/ PostConfirmPaymentV1
    \/ PostSendNotification
    \/ PostSendConfirmation

SpecDonations == Init /\ [][NextDonations]_vars

----------------------------------------------------------------------------
(* Claims on POST /refund *)

RefundsCreateCalled ==
    \E i \in DOMAIN last.calls : last.calls[i].api = "refunds.create"

\* what the gateway has captured for the intent the last request names
CapturedAmount ==
    IF last.seen.known /\ last.seen.status = "succeeded" THEN last.seen.amount ELSE 0

C6_IssuedIdRefundable ==
    (/\ last.endpoint = "refund"
     /\ last.body.contentType = JsonType
     /\ \E i \in DOMAIN PiIds : last.body.paymentIntentId = PiIds[i]
     /\ last.seen.known
     /\ last.seen.status = "succeeded"
     /\ last.body.amount.t = UndefinedT \/ validateAmount(last.body.amount)
     /\ last.body.reason \in {Absent} \cup RefundReasons)
    => /\ last.status # 400
       /\ last.error # "Payment not found" => RefundsCreateCalled
       /\ last.status \in {200, 500}
       /\ last.status = 200 => last.success

----------------------------------------------------------------------------
(* Claims on POST /confirm-payment and on donor e-mail validation *)

ConfirmEndpoints == {"confirm-payment", "confirm-payment-v1"}

\* the record re-fetched for the last confirm request says succeeded, and the
\* amount the client sent, if any, equals the record's in minor units
GatewayRecordAgrees ==
    /\ last.seen.known
    /\ last.seen.status = "succeeded"
    /\ (last.endpoint = "confirm-payment" /\ last.body.amount.t # UndefinedT) =>
          /\ ParseFloatValue(last.body.amount).t = NumberT
          /\ ToCents(ParseFloatValue(last.body.amount)) = last.seen.amount

\* the gateway answered the fetch of the last confirm request
RecordFetched ==
    /\ last.calls # <<>>
    /\ last.calls[Len(last.calls)].api = "paymentIntents.retrieve"
    /\ last.error # "Payment not found"

EmailEndpoints ==
    {"create-payment-intent", "confirm-payment", "send-notification",
     "send-confirmation"}

\* the request carries a donorEmail that is no e-mail address, even after the
\* trimming and lower-casing create-payment-intent applies
CarriesBadEmail(body) ==
    /\ Truthy(body.donorEmail)
    /\ ~isEmail(ToLowerCase(Trim(body.donorEmail)))

\* C9: on each endpoint taking a donorEmail, a request whose donorEmail fails
\* e-mail syntax validation is answered 400 before any gateway or mail call.
C9_BadEmailRejectedFirst ==
    (last.endpoint \in EmailEndpoints /\ CarriesBadEmail(last.body))
    => (last.status = 400 /\ last.calls = <<>>)

----------------------------------------------------------------------------
(* POST /api/webhooks/stripe.  A request body is a string of bytes, named here
   by an atom; JSONparse tabulates what JSON.parse makes of each, and
   Hmac tabulates the hex digest of HMAC-SHA256 under the configured secret,
   one digest per body, shortened to four hex characters. *)

TextType == "text/plain"

NoEvent == [json |-> "invalid", id |-> "", type |-> "", data |-> FALSE]

JSONparse(bytes) ==
    CASE bytes = "{evt_1 payment_intent.succeeded}" ->
            [json |-> "object", id |-> "evt_1",
             type |-> "payment_intent.succeeded", data |-> TRUE]
      [] bytes = "{evt_2 payment_intent.payment_failed}" ->
            [json |-> "object", id |-> "evt_2",
             type |-> "payment_intent.payment_failed", data |-> TRUE]
      [] bytes = "{evt_3 charge.refunded}" ->
            [json |-> "object", id |-> "evt_3",
             type |-> "charge.refunded", data |-> TRUE]
      [] bytes = "{evt_4 customer.created}" ->
            [json |-> "object", id |-> "evt_4",
             type |-> "customer.created", data |-> TRUE]
      [] bytes = "{evt_5 payment_intent.succeeded, no data}" ->
            [json |-> "object", id |-> "evt_5",
             type |-> "payment_intent.succeeded", data |-> FALSE]
      [] bytes = "null" -> [NoEvent EXCEPT !.json = "null"]
      [] OTHER -> NoEvent

Payloads ==
    {"{evt_1 payment_intent.succeeded}", "{evt_2 payment_intent.payment_failed}",
     "{evt_3 charge.refunded}", "{evt_4 customer.created}",
     "{evt_5 payment_intent.succeeded, no data}", "null", "{evt_1 paym"}

EventIds == {"evt_1", "evt_2", "evt_3", "evt_4", "evt_5"}

Hmac(bytes) ==
    CASE bytes = "{evt_1 payment_intent.succeeded}" -> <<"a", "1", "0", "f">>
      [] bytes = "{evt_2 payment_intent.payment_failed}" -> <<"b", "2", "9", "e">>
      [] bytes = "{evt_3 charge.refunded}" -> <<"c", "3", "8", "d">>
      [] bytes = "{evt_4 customer.created}" -> <<"d", "4", "7", "c">>
      [] bytes = "{evt_5 payment_intent.succeeded, no data}" -> <<"e", "5", "6", "b">>
      [] bytes = "null" -> <<"f", "6", "5", "a">>
      [] OTHER -> <<"0", "7", "4", "9">>

HexChars ==
    {"0", "1", "2", "3", "4", "5", "6", "7", "8", "9",
     "a", "b", "c", "d", "e", "f", "A", "B", "C", "D", "E", "F"}

\* the value of one hex digit, either case
unhex(c) ==
    CASE c \in {"a", "A"} -> 10
      [] c \in {"b", "B"} -> 11
      [] c \in {"c", "C"} -> 12
      [] c \in {"d", "D"} -> 13
      [] c \in {"e", "E"} -> 14
      [] c \in {"f", "F"} -> 15
      [] OTHER -> DigitVal(c)

\* Buffer.from(s, 'hex'): one byte per pair of hex digits, stopping at the
\* first pair that is not two hex digits; an odd last character is dropped
RECURSIVE BufferFromHex(_)
BufferFromHex(s) ==
    IF Len(s) < 2 \/ s[1] \notin HexChars \/ s[2] \notin HexChars
    THEN <<>>
    ELSE <<16 * unhex(s[1]) + unhex(s[2])>> \o BufferFromHex(SubSeq(s, 3, Len(s)))

WhsecPrefix == <<"w", "h", "s", "e", "c", "_">>

\* s.replace('whsec_', ''): the first occurrence removed, if there is one
ReplaceWhsec(s) ==
    LET n == Len(WhsecPrefix)
        at == {i \in 1..Len(s) : i + n - 1 <= Len(s)
                                 /\ SubSeq(s, i, i + n - 1) = WhsecPrefix}
    IN IF at = {} THEN s
       ELSE LET i == CHOOSE j \in at : \A k \in at : j <= k
            IN SubSeq(s, 1, i - 1) \o SubSeq(s, i + n, Len(s))

\* crypto.timingSafeEqual: throws on buffers of different length
timingSafeEqual(a, b) ==
    IF Len(a) # Len(b) THEN "throws" ELSE IF a = b THEN "true" ELSE "false"

\* payload is req.body: the request's bytes if a raw parser read them, an
\* object otherwise, and createHmac(...).update throws on an object
validateWebhookSignature(payload, signature) ==
    IF payload.kind # "buffer" THEN FALSE
    ELSE timingSafeEqual(BufferFromHex(ReplaceWhsec(signature)),
                         BufferFromHex(Hmac(payload.bytes))) = "true"

\* req.body and the parser's state after one body parser
EmptyObject == [kind |-> "object", bytes |-> ""]

NotParsed == [error |-> FALSE, parsed |-> FALSE, body |-> EmptyObject]

\* express.json(): reads a body of type application/json, in strict mode only
\* an object or an array, and passes a parse error on to the error handler
expressJson(req) ==
    IF req.contentType # JsonType THEN NotParsed
    ELSE IF JSONparse(req.bytes).json = "object"
         THEN [error |-> FALSE, parsed |-> TRUE,
               body |-> [kind |-> "object", bytes |-> req.bytes]]
         ELSE [error |-> TRUE, parsed |-> FALSE, body |-> EmptyObject]

\* express.raw({type: 'application/json'}): skips a body a parser before it
\* has read, and otherwise hands the bytes of a JSON-typed body on as a Buffer
expressRaw(req, before) ==
    IF before.parsed THEN before
    ELSE IF req.contentType = JsonType
         THEN [error |-> FALSE, parsed |-> TRUE,
               body |-> [kind |-> "buffer", bytes |-> req.bytes]]
         ELSE before

Stacks == {"router", "app"}

\* the parsers a request passes before the route's handler: the route's own
\* raw parser, behind the application's JSON parser when the router is mounted
\* in the application
BodyParsers(stack, req) ==
    IF stack = "app"
    THEN LET j == expressJson(req) IN IF j.error THEN j ELSE expressRaw(req, j)
    ELSE expressRaw(req, NotParsed)

\* a dispatch that drops charge.refunded
HandlerOf_RefundDropped(type) ==
    CASE type = "payment_intent.succeeded" -> "handlePaymentSucceeded"
      [] type = "payment_intent.payment_failed" -> "handlePaymentFailed"
      [] OTHER -> "none"

\* StripeService.handleWebhook: the handler the event's type selects
HandlerOf(type) ==
    CASE type = "payment_intent.succeeded" -> "handlePaymentSucceeded"
      [] type = "payment_intent.payment_failed" -> "handlePaymentFailed"
      [] type = "charge.refunded" -> "handleRefund"
      [] OTHER -> "none"

WebhookAnswer(status, received, error, calls) ==
    [status |-> status, received |-> received, error |-> error, calls |-> calls]

\* config.stripe.webhookSecret: STRIPE_WEBHOOK_SECRET, undefined when the
\* variable is not set
ConfiguredSecret == "<the configured secret>"

\* validateWebhookSignature with the secret it is handed: createHmac throws
\* on an undefined key, and the catch returns false
validateWebhookSignatureWith(payload, signature, secret) ==
    IF secret = Absent THEN FALSE
    ELSE validateWebhookSignature(payload, signature)

\* the route's answer and the handler it invokes, for the secret in the
\* configuration
StripeWebhookAnswerWith(stack, req, secret) ==
    LET parsed == BodyParsers(stack, req)
        payload == parsed.body
        event == JSONparse(payload.bytes)
        handler == HandlerOf(event.type)
    IN CASE parsed.error ->
              WebhookAnswer(500, FALSE, "Internal server error", <<>>)
         [] ~parsed.error /\ (~req.sig.present \/ req.sig.chars = <<>>) ->
              WebhookAnswer(400, FALSE, "Missing signature", <<>>)
         [] ~parsed.error /\ req.sig.present /\ req.sig.chars # <<>>
            /\ ~validateWebhookSignatureWith(payload, req.sig.chars, secret) ->
              WebhookAnswer(400, FALSE, "Invalid signature", <<>>)
         [] OTHER ->
              IF event.json = "invalid"
              THEN WebhookAnswer(400, FALSE, "Invalid payload", <<>>)
              ELSE IF event.json = "null" \/ (handler # "none" /\ ~event.data)
              THEN WebhookAnswer(500, FALSE, "Webhook processing failed", <<>>)
              ELSE IF handler = "none"
              THEN WebhookAnswer(200, TRUE, "", <<>>)
              ELSE WebhookAnswer(200, TRUE, "",
                                 <<Call(handler, event.id, 0, "", "")>>)

\* the route's answer with the webhook secret configured
StripeWebhookAnswer(stack, req) == StripeWebhookAnswerWith(stack, req, ConfiguredSecret)

StripeWebhook(stack, req) ==
    LET a == StripeWebhookAnswer(stack, req)
        id == IF a.calls = <<>> THEN "" ELSE a.calls[1].id
    IN /\ a.calls # <<>> => handlerRuns[id] < MaxDeliveries
       /\ last' = Exchange("webhooks/stripe", req, a.status, a.received,
                           a.error, a.calls)
       /\ handlerRuns' = IF a.calls = <<>> THEN handlerRuns
                         ELSE [handlerRuns EXCEPT ![id] = @ + 1]

(* Deliveries *)

ToUpperHex(c) ==
    CASE c = "a" -> "A" [] c = "b" -> "B" [] c = "c" -> "C"
      [] c = "d" -> "D" [] c = "e" -> "E" [] c = "f" -> "F" [] OTHER -> c

NoSignature == [present |-> FALSE, chars |-> <<>>]

Signature(chars) == [present |-> TRUE, chars |-> chars]

\* stripe-signature headers sent with body bytes: none, empty, the digest, the
\* digest of another body, and the digest cut short, extended, prefixed,
\* upper-cased or wrapped the way the provider formats its header
SignatureInputs(bytes) ==
    LET d == Hmac(bytes)
    IN {NoSignature, Signature(<<>>), Signature(d),
        Signature(Hmac("another body")),
        Signature(SubSeq(d, 1, 2)),
        Signature(d \o <<"z">>), Signature(d \o <<"0">>),
        Signature(d \o <<"0", "0">>),
        Signature(<<"z">> \o d),
        Signature(WhsecPrefix \o d),
        Signature([i \in DOMAIN d |-> ToUpperHex(d[i])]),
        Signature(<<"t", "=", "1", ",", "v", "1", "=">> \o d)}

WebhookRequests ==
    UNION {[sig : SignatureInputs(bytes), contentType : {JsonType, TextType},
            bytes : {bytes}] : bytes \in Payloads}

InitWebhook ==
    /\ inbox = {}
    /\ intents = <<>>
    /\ last = NoExchange
    /\ handlerRuns = [id \in EventIds |-> 0]
    /\ files = {}
    /\ clock = 0
    /\ subscribers = <<>>
    /\ hits = <<>>
    /\ env = "development"
    /\ served = <<>>
    /\ projects = InitialProjects
    /\ expressions = <<>>
    /\ nextId = 1
    /\ proc = ServerListening
    /\ uploadDir = DirectoryReady

\* a delivery to the router mounted on its own, where the route's raw parser
\* is the first to see the body
PostStripeWebhookRouter ==
    /\ \E req \in WebhookRequests : StripeWebhook("router", req)
    /\ UNCHANGED <<inbox, intents, files, clock, subscribers, hits, env, served, projects, expressions, nextId, proc, uploadDir>>

\* a delivery to the application, whose JSON parser runs before every route
PostStripeWebhook ==
    /\ \E req \in WebhookRequests : StripeWebhook("app", req)
    /\ UNCHANGED <<inbox, intents, files, clock, subscribers, hits, env, served, projects, expressions, nextId, proc, uploadDir>>

SpecWebhookRouter == InitWebhook /\ [][PostStripeWebhookRouter]_vars

SpecWebhook == InitWebhook /\ [][PostStripeWebhook]_vars

----------------------------------------------------------------------------
(* Claims on POST /api/webhooks/stripe *)

ToLowerHex(c) ==
    CASE c = "A" -> "a" [] c = "B" -> "b" [] c = "C" -> "c"
      [] c = "D" -> "d" [] c = "E" -> "e" [] c = "F" -> "f" [] OTHER -> c

\* the header is the hex digest of the request's own bytes, in either case and
\* with or without a leading whsec_
SignatureMatches(req) ==
    /\ req.sig.present
    /\ \E chars \in {req.sig.chars, WhsecPrefix \o req.sig.chars} :
          [i \in DOMAIN chars |-> ToLowerHex(chars[i])]
             = WhsecPrefix \o Hmac(req.bytes)

\* C2: a delivery whose stripe-signature header is missing, malformed or not
\* the digest of its body is answered 400 and invokes no event handler.
C2_BadSignatureRejected ==
    (last.endpoint = "webhooks/stripe" /\ ~SignatureMatches(last.body))
    => (last.status = 400 /\ last.calls = <<>>)

\* C3: a payment_intent.succeeded delivery of type application/json signed with
\* the digest of its exact bytes is, in the application, accepted, dispatched
\* to handlePaymentSucceeded and answered 200 {received: true}.
C3_SignedEventAccepted ==
    (/\ last.endpoint = "webhooks/stripe"
     /\ last.body.contentType = JsonType
     /\ last.body.sig = Signature(Hmac(last.body.bytes))
     /\ JSONparse(last.body.bytes).type = "payment_intent.succeeded"
     /\ JSONparse(last.body.bytes).data)
    => /\ last.status = 200
       /\ last.success
       /\ last.calls = <<Call("handlePaymentSucceeded",
                              JSONparse(last.body.bytes).id, 0, "", "")>>

\* C4: however often a signed event is delivered, the handler of its event id
\* runs at most once.
C4_HandlerRunsAtMostOnce ==
    \A id \in EventIds : handlerRuns[id] <= 1

----------------------------------------------------------------------------
(* ReceiptService.  A file name is the sequence of the pieces its template
   string joins; an id is a sequence of pieces too, so that two templates
   giving the same characters give the same name. *)

RECURSIVE NumberToString(_)
NumberToString(n) ==
    LET digit == <<"0", "1", "2", "3", "4", "5", "6", "7", "8", "9">>[(n % 10) + 1]
    IN IF n < 10 THEN <<digit>> ELSE NumberToString(n \div 10) \o <<digit>>

uploadPath == <<"uploads", "/">>

\* `receipt-${paymentIntentId}-${Date.now()}.pdf` under the upload path
GeneratedReceiptPath(paymentIntentId, now) ==
    uploadPath \o <<"receipt-">> \o paymentIntentId \o <<"-">>
        \o NumberToString(now) \o <<".pdf">>

getReceiptPath(paymentIntentId) ==
    uploadPath \o <<"receipt-">> \o paymentIntentId \o <<".pdf">>

receiptExists(paymentIntentId) == getReceiptPath(paymentIntentId) \in files

ReceiptCall(op, paymentIntentId, success, returned) ==
    [endpoint |-> op, body |-> paymentIntentId, success |-> success,
     returned |-> returned]

\* generateReceipt: the stream either finishes, and the file is there and its
\* path returned, or fails, and the call rejects
generateReceipt(paymentIntentId, stream) ==
    LET filePath == GeneratedReceiptPath(paymentIntentId, clock)
    IN IF stream = "finish"
       THEN /\ uploadDir.exists
            /\ filePath \in files \/ Cardinality(files) < MaxReceipts
            /\ files' = files \cup {filePath}
            /\ last' = ReceiptCall("generateReceipt", paymentIntentId, TRUE, filePath)
       ELSE /\ files' = files
            /\ last' = ReceiptCall("generateReceipt", paymentIntentId, FALSE, <<>>)

ReceiptIds == {<<"pi_1">>, <<"pi_2">>, <<"pi_1", "-", "2">>}

GenerateReceipt ==
    /\ \E id \in ReceiptIds, stream \in {"finish", "error"} :
          generateReceipt(id, stream)
    /\ UNCHANGED <<inbox, intents, handlerRuns, clock, subscribers, hits, env, served, projects, expressions, nextId, proc, uploadDir>>

ReceiptExists ==
    /\ \E id \in ReceiptIds :
          last' = ReceiptCall("receiptExists", id, receiptExists(id),
                              getReceiptPath(id))
    /\ UNCHANGED <<inbox, intents, handlerRuns, files, clock, subscribers, hits, env, served, projects, expressions, nextId, proc, uploadDir>>

\* deleteReceipt(filePath): unlink, errors swallowed
DeleteReceipt ==
    /\ \E filePath \in files :
          /\ files' = files \ {filePath}
          /\ last' = ReceiptCall("deleteReceipt", filePath, TRUE, filePath)
    /\ UNCHANGED <<inbox, intents, handlerRuns, clock, subscribers, hits, env, served, projects, expressions, nextId, proc, uploadDir>>

\* time passes between calls
Tick ==
    /\ clock < MaxClock
    /\ clock' = clock + 1
    /\ UNCHANGED <<inbox, intents, last, handlerRuns, files, subscribers, hits, env, served, projects, expressions, nextId, proc, uploadDir>>

NextReceipt == GenerateReceipt \/ ReceiptExists \/ DeleteReceipt \/ Tick

SpecReceipt == Init /\ [][NextReceipt]_vars

\* C10: once generateReceipt has completed for an id, receiptExists of that id
\* is true and getReceiptPath of that id is the path generateReceipt returned.
C10_GeneratedReceiptFound ==
    (last.endpoint = "generateReceipt" /\ last.success)
    => /\ receiptExists(last.body)
       /\ getReceiptPath(last.body) = last.returned

----------------------------------------------------------------------------
(* Claims on StripeService.handleWebhook *)

\* the last delivery carried the digest of its bytes and a well-formed event
VerifiedEvent ==
    /\ last.endpoint = "webhooks/stripe"
    /\ last.body.contentType = JsonType
    /\ last.body.sig = Signature(Hmac(last.body.bytes))
    /\ JSONparse(last.body.bytes).json = "object"
    /\ JSONparse(last.body.bytes).data

\* C11: a verified event of type payment_intent.succeeded,
\* payment_intent.payment_failed or charge.refunded invokes exactly its own
\* handler, once; an event of any other type invokes none; either way the
\* route answers 200 {received: true}.
C11_DispatchByType ==
    VerifiedEvent =>
       LET event == JSONparse(last.body.bytes)
           own == CASE event.type = "payment_intent.succeeded" ->
                          <<"handlePaymentSucceeded">>
                    [] event.type = "payment_intent.payment_failed" ->
                          <<"handlePaymentFailed">>
                    [] event.type = "charge.refunded" -> <<"handleRefund">>
                    [] OTHER -> <<>>
       IN /\ last.status = 200
          /\ last.success
          /\ [i \in DOMAIN last.calls |-> last.calls[i].api] = own
          /\ \A i \in DOMAIN last.calls : last.calls[i].id = event.id

\* a charge.refunded event has been dispatched and an event of an unhandled
\* type has just been answered
C11_Witness ==
    /\ VerifiedEvent
    /\ JSONparse(last.body.bytes).type = "customer.created"
    /\ last.status = 200
    /\ handlerRuns["evt_3"] = 1
    /\ handlerRuns["evt_1"] = 1

----------------------------------------------------------------------------
(* GET /payment-intent/:id *)

\* GET /payment-intent/:id (the handler, StripeService.getPaymentIntent); the
\* route matches only a non-empty id, which arrives as req.params.id
GetPaymentIntent(id, gw) ==
    LET ep == "payment-intent"
        answer(status, success, error) ==
            [Exchange(ep, [id |-> id], status, success, error, <<RetrieveCall(id)>>)
                EXCEPT !.seen = Seen(id),
                       !.gateway = <<RetrieveOutcome(id, gw)>>]
    IN /\ UNCHANGED intents
       /\ last' = IF Retrieved(id, gw)
                  THEN answer(200, TRUE, "")
                  ELSE answer(404, FALSE, "Payment intent not found")

InfrastructureErrors == {"StripeAPIError", "StripeConnectionError"}

GetPaymentIntentRoute ==
    /\ \E id \in IdInputs \ {Absent}, gw \in {"ok"} \cup InfrastructureErrors :
          GetPaymentIntent(id, gw)
    /\ UNCHANGED <<inbox, handlerRuns, files, clock, subscribers, hits, env, served, projects, expressions, nextId, proc, uploadDir>>

NextLookup == PostCreatePaymentIntent \/ GatewayAdvance \/ GetPaymentIntentRoute

SpecLookup == Init /\ [][NextLookup]_vars

\* C12: GET /payment-intent/:id answers 404 exactly when the gateway reports
\* that no such id exists; a failure of the gateway during the fetch is
\* answered with a 5xx status.
C12_NotFoundOnlyWhenMissing ==
    last.endpoint = "payment-intent"
    => /\ (last.status = 404) <=> (last.gateway = <<"resource_missing">>)
       /\ (last.gateway[1] \in InfrastructureErrors) => (last.status >= 500)

----------------------------------------------------------------------------
(* StripeService.createPaymentIntent called on its own *)

\* createPaymentIntent(donationData): validation, paymentIntents.create and the
\* catch that maps whatever was thrown inside the try, the validation error
\* included, by its type
StripeCreatePaymentIntent(d, gw, shape) ==
    LET ep == "StripeService.createPaymentIntent"
    IN IF StripeValidateDonationData(d) # {}
       THEN /\ last' = Exchange(ep, d, 0, FALSE, CreateErrorMessage("Error"), <<>>)
            /\ UNCHANGED intents
       ELSE IF gw = "ok"
       THEN /\ Cardinality(DOMAIN intents) < MaxIntents
            /\ intents' = intents @@ (NextId(shape) :>
                              [amount |-> ToCents(d.amount),
                               status |-> "requires_payment_method",
                               donorName |-> CreateCall(d).donorName])
            /\ last' = [Exchange(ep, d, 0, TRUE, "", <<CreateCall(d)>>)
                          EXCEPT !.calls[1].id = NextId(shape),
                                 !.gateway = <<gw>>]
       ELSE /\ last' = [Exchange(ep, d, 0, FALSE, CreateErrorMessage(gw),
                                 <<CreateCall(d)>>)
                          EXCEPT !.gateway = <<gw>>]
            /\ UNCHANGED intents

DonationDataInputs ==
    [amount : {Undef, Num(0, 0), Num(25, 0), Num(20000, 0)},
     projectId : {Absent, "general"},
     donorName : {Absent, "Bob"},
     donorEmail : {Absent, "ann@ex.org", "not-an-email"},
     anonymous : {BTrue, BFalse},
     message : {Absent, LongMessage},
     projectTitle : {Absent}]

CallCreatePaymentIntent ==
    /\ \E d \in DonationDataInputs, gw \in GatewayOutcomes, shape \in IdShapes :
          StripeCreatePaymentIntent(d, gw, shape)
    /\ UNCHANGED <<inbox, handlerRuns, files, clock, subscribers, hits, env, served, projects, expressions, nextId, proc, uploadDir>>

NextService == CallCreatePaymentIntent

SpecService == Init /\ [][NextService]_vars

\* the messages createPaymentIntent gives the provider's errors
ProviderErrorMessages ==
    {"Card error: <provider message>", "Invalid payment request",
     "Payment service temporarily unavailable", "Payment processing failed"}

\* C13: when createPaymentIntent rejects invalid input, the error it raises is
\* none of the errors mapped from the provider: invalid input is not reported
\* as a payment-processing failure.
C13_InvalidInputIsValidationError ==
    (/\ last.endpoint = "StripeService.createPaymentIntent"
     /\ StripeValidateDonationData(last.body) # {})
    => /\ ~last.success
       /\ last.calls = <<>>
       /\ last.error \notin ProviderErrorMessages

----------------------------------------------------------------------------
(* ResendEmailService: the notification operations called on their own *)

MailOperations ==
    {"sendContactNotification", "sendDonationNotification",
     "sendExpressionNotification", "sendVolunteerNotification",
     "sendEnrollmentNotification", "sendDonationConfirmation",
     "sendNewsletterNotification", "testEmail"}

\* a check that lets a newsletter notification through without an address
RequiredFields_NewsletterUnchecked(op) ==
    CASE op = "sendContactNotification" -> {"name", "email", "subject"}
      [] op = "sendDonationNotification" -> {"donorEmail", "amount", "projectTitle"}
      [] op = "sendExpressionNotification" ->
            {"communityName", "coordinatorName", "email"}
      [] op = "sendVolunteerNotification" -> {"firstName", "lastName", "email"}
      [] op = "sendEnrollmentNotification" ->
            {"courseId", "firstName", "lastName", "email"}
      [] op = "sendDonationConfirmation" -> {"donorEmail", "amount", "projectTitle"}
      [] op = "sendNewsletterNotification" -> {}
      [] OTHER -> {"recipientEmail"}

\* the fields each operation tests with ! before it builds the message
RequiredFields(op) ==
    CASE op = "sendContactNotification" -> {"name", "email", "subject"}
      [] op = "sendDonationNotification" -> {"donorEmail", "amount", "projectTitle"}
      [] op = "sendExpressionNotification" ->
            {"communityName", "coordinatorName", "email"}
      [] op = "sendVolunteerNotification" -> {"firstName", "lastName", "email"}
      [] op = "sendEnrollmentNotification" ->
            {"courseId", "firstName", "lastName", "email"}
      [] op = "sendDonationConfirmation" -> {"donorEmail", "amount", "projectTitle"}
      [] op = "sendNewsletterNotification" -> {"email"}
      [] OTHER -> {"recipientEmail"}

\* the fields of the payloads sent to an operation: the ones its message is
\* built from that the model varies
PayloadFields(op) ==
    CASE op = "sendContactNotification" -> {"name", "email", "subject", "message"}
      [] op = "sendDonationNotification" ->
            {"donorName", "donorEmail", "amount", "projectTitle"}
      [] op = "sendExpressionNotification" ->
            {"communityName", "coordinatorName", "email", "comments"}
      [] op = "sendVolunteerNotification" ->
            {"firstName", "lastName", "email", "phone"}
      [] op = "sendEnrollmentNotification" ->
            {"courseId", "firstName", "lastName", "email"}
      [] op = "sendDonationConfirmation" ->
            {"donorName", "donorEmail", "amount", "projectTitle"}
      [] op = "sendNewsletterNotification" -> {"email", "submittedAt"}
      [] OTHER -> {"recipientEmail"}

FieldValues == {Absent, "", "value"}

\* one notification operation: the required-field test, resend.emails.send,
\* and the error thrown when the provider answers with one
MailOperation(op, payload, mail) ==
    LET req == [op |-> op, payload |-> payload]
        send == Call("emails.send", "", 0, "", op)
    IN last' =
         IF \E f \in RequiredFields(op) : ~Truthy(payload[f])
         THEN Exchange(op, req, 0, FALSE, "Missing required fields", <<>>)
         ELSE IF mail # "ok"
         THEN Exchange(op, req, 0, FALSE, "Failed to send", <<send>>)
         ELSE Exchange(op, req, 0, TRUE, "", <<send>>)

CallMailOperation ==
    /\ \E op \in MailOperations :
          \E payload \in [PayloadFields(op) -> FieldValues], mail \in MailOutcomes :
             MailOperation(op, payload, mail)
    /\ UNCHANGED <<inbox, intents, handlerRuns, files, clock, subscribers, hits, env, served, projects, expressions, nextId, proc, uploadDir>>

NextMail == CallMailOperation

SpecMail == Init /\ [][NextMail]_vars

----------------------------------------------------------------------------
(* Claims on the notification operations *)

\* the fields each operation's contract requires
ContractRequired ==
    [sendContactNotification |-> {"name", "email", "subject"},
     sendDonationNotification |-> {"donorEmail", "amount", "projectTitle"},
     sendExpressionNotification |-> {"communityName", "coordinatorName", "email"},
     sendVolunteerNotification |-> {"firstName", "lastName", "email"},
     sendEnrollmentNotification |-> {"courseId", "firstName", "lastName", "email"},
     sendDonationConfirmation |-> {"donorEmail", "amount", "projectTitle"},
     sendNewsletterNotification |-> {"email"},
     testEmail |-> {"recipientEmail"}]

\* the last call was a notification operation whose payload lacks a required field
LacksRequiredField ==
    /\ last.endpoint \in MailOperations
    /\ \E f \in ContractRequired[last.endpoint] :
          last.body.payload[f] \in {Absent, ""}

\* C14: a notification operation whose payload lacks a required field fails
\* without calling the mail API; the mail API is called only with every
\* required field present.
C14_RequiredFieldsBeforeSend ==
    last.endpoint \in MailOperations
    => /\ LacksRequiredField => (~last.success /\ last.calls = <<>>)
       /\ last.calls # <<>> =>
             \A f \in ContractRequired[last.endpoint] :
                last.body.payload[f] = "value"

\* a newsletter notification without an address has failed without a send
C14_Witness ==
    /\ LacksRequiredField
    /\ last.endpoint = "sendNewsletterNotification"
    /\ last.error = "Missing required fields"
    /\ last.calls = <<>>

----------------------------------------------------------------------------
(* The rate limiter in front of the payment endpoints.  The clock counts
   ticks of seven and a half minutes, so that a window is two ticks. *)

PaymentWindow == 2     \* windowMs, 15 minutes, in ticks
PaymentMax == 10       \* max

ClientIps == {"203.0.113.7"}

\* the store's record of a client the limiter has not seen in this window
NewClient(window) == [totalHits |-> 0, resetTime |-> clock + window]

\* MemoryStore.increment: the client's record, begun afresh once its reset
\* time has come, with this request counted
Increment(key, window) ==
    LET client == IF key \in DOMAIN hits THEN hits[key] ELSE NewClient(window)
        current == IF client.resetTime <= clock THEN NewClient(window) ELSE client
    IN [current EXCEPT !.totalHits = @ + 1]

\* a limiter that lets one request more through
OverLimit_OneMore(key, window, max) == Increment(key, window).totalHits > max + 1

\* the limiter's handler answers when the request is over the limit
OverLimit(key, window, max) == Increment(key, window).totalHits > max

\* createRateLimiter(...) as a middleware: counts the request under its key and
\* reports whether it goes on to the next handler
RateLimit(key, window, max) ==
    /\ Increment(key, window).totalHits <= max + MaxOverLimit
    /\ hits' = (key :> Increment(key, window)) @@ hits

TooManyRequests(endpoint, body) ==
    Exchange(endpoint, body, 429, FALSE,
             "Too many payment requests, please try again later.", <<>>)

\* a request reaching a payment handler is counted at the current tick
Served(ip) == [served EXCEPT ![<<ip, 0>>] = @ + 1]

LimitedCreateBody ==
    [amount |-> Num(25, 0), projectId |-> "general", project_id |-> Absent,
     donorName |-> "Bob", donor_name |-> Absent, donorEmail |-> "ann@ex.org",
     donor_email |-> Absent, anonymous |-> BFalse, message |-> Absent,
     note |-> Absent]

LimitedRefundBody ==
    [contentType |-> JsonType, paymentIntentId |-> UuidIds[1], amount |-> Undef,
     reason |-> Absent]

LimitedConfirmBody ==
    [paymentIntentId |-> UuidIds[1], projectId |-> "general",
     amount |-> Num(25, 0), donorEmail |-> "ann@ex.org"]

\* paymentRateLimit, then the route it guards
LimitedCreatePaymentIntent ==
    /\ \E ip \in ClientIps :
          /\ RateLimit(<<"payment", ip>>, PaymentWindow, PaymentMax)
          /\ IF OverLimit(<<"payment", ip>>, PaymentWindow, PaymentMax)
             THEN /\ last' = TooManyRequests("create-payment-intent", LimitedCreateBody)
                  /\ UNCHANGED <<intents, served, projects, expressions, nextId, proc, uploadDir>>
             ELSE /\ served' = Served(ip)
                  /\ \E gw \in {"ok", "StripeAPIError"} :
                        CreatePaymentIntent(LimitedCreateBody, gw, "uuid")
    /\ UNCHANGED <<inbox, handlerRuns, files, clock, subscribers, env, projects, expressions, nextId, proc, uploadDir>>

LimitedConfirmPayment ==
    /\ \E ip \in ClientIps :
          /\ RateLimit(<<"payment", ip>>, PaymentWindow, PaymentMax)
          /\ IF OverLimit(<<"payment", ip>>, PaymentWindow, PaymentMax)
             THEN /\ last' = TooManyRequests("confirm-payment", LimitedConfirmBody)
                  /\ UNCHANGED <<intents, served, projects, expressions, nextId, proc, uploadDir>>
             ELSE /\ served' = Served(ip)
                  /\ ConfirmPayment(LimitedConfirmBody, "ok")
    /\ UNCHANGED <<inbox, handlerRuns, files, clock, subscribers, env, projects, expressions, nextId, proc, uploadDir>>

LimitedRefund ==
    /\ \E ip \in ClientIps :
          /\ RateLimit(<<"payment", ip>>, PaymentWindow, PaymentMax)
          /\ IF OverLimit(<<"payment", ip>>, PaymentWindow, PaymentMax)
             THEN /\ last' = TooManyRequests("refund", LimitedRefundBody)
                  /\ UNCHANGED <<intents, served, projects, expressions, nextId, proc, uploadDir>>
             ELSE /\ served' = Served(ip)
                  /\ Refund(LimitedRefundBody, "ok", "ok")
    /\ UNCHANGED <<inbox, handlerRuns, files, clock, subscribers, env, projects, expressions, nextId, proc, uploadDir>>

\* a tick passes: what was served now was served one tick ago
LimiterTick ==
    /\ clock < MaxClock
    /\ clock' = clock + 1
    /\ served' = [k \in DOMAIN served |->
                     IF k[2] = 0 THEN 0 ELSE served[<<k[1], k[2] - 1>>]]
    /\ UNCHANGED <<inbox, intents, last, handlerRuns, files, subscribers, hits, env, projects, expressions, nextId, proc, uploadDir>>

InitLimiter ==
    /\ inbox = {}
    /\ intents = <<>>
    /\ last = NoExchange
    /\ handlerRuns = <<>>
    /\ files = {}
    /\ clock = 0
    /\ subscribers = <<>>
    /\ hits = <<>>
    /\ env = "development"
    /\ served = [k \in ClientIps \X (0..(PaymentWindow - 1)) |-> 0]
    /\ projects = InitialProjects
    /\ expressions = <<>>
    /\ nextId = 1
    /\ proc = ServerListening
    /\ uploadDir = DirectoryReady

NextLimiter ==
    \/ LimitedCreatePaymentIntent
    \/ LimitedConfirmPayment
    \/ LimitedRefund
    \/ LimiterTick

SpecLimiter == InitLimiter /\ [][NextLimiter]_vars

----------------------------------------------------------------------------
(* Claims on the payment rate limiter *)

RECURSIVE SumServed(_, _)
SumServed(ip, ages) ==
    IF ages = {} THEN 0
    ELSE LET a == CHOOSE x \in ages : TRUE
         IN served[<<ip, a>>] + SumServed(ip, ages \ {a})

\* the ticks, counted back from now, that lie in the window the limiter last
\* opened for the client
WindowAges(ip) ==
    LET reset == hits[<<"payment", ip>>].resetTime
    IN {a \in 0..(PaymentWindow - 1) :
           clock - a >= reset - PaymentWindow /\ clock - a < reset}

NoGatewayCallWhenLimited == last.status = 429 => last.calls = <<>>

\* C17 (as stated): in any 15 minutes, at most 10 requests of one client IP
\* reach the payment handlers, and a request answered 429 causes no gateway
\* call.
C17_AtMostMaxInAnyWindow ==
    /\ \A ip \in ClientIps :
          SumServed(ip, 0..(PaymentWindow - 1)) <= PaymentMax
    /\ NoGatewayCallWhenLimited

\* C17 (amended): in any window the limiter opens for a client IP, 15 minutes
\* from the client's first request after the window before, at most 10
\* requests reach the payment handlers, and a request answered 429 causes no
\* gateway call.
C17_AtMostMaxInLimiterWindow ==
    /\ \A ip \in ClientIps :
          <<"payment", ip>> \in DOMAIN hits =>
             SumServed(ip, WindowAges(ip)) <= PaymentMax
    /\ NoGatewayCallWhenLimited

\* in a second window of the limiter, ten requests have been served and the
\* eleventh has been answered 429
C17_Witness ==
    /\ last.status = 429
    /\ clock >= PaymentWindow
    /\ \E ip \in ClientIps :
          /\ <<"payment", ip>> \in DOMAIN hits
          /\ hits[<<"payment", ip>>].resetTime > clock
          /\ SumServed(ip, WindowAges(ip)) = PaymentMax

----------------------------------------------------------------------------
(* POST /api/contact and POST /api/newsletter/subscribe: the requests that  *)
(* send a notification as a side effect                                     *)

MaxSubscribeRequests == 2

ContactWindow == 2
ContactMax == 3

LongContactMessage == "<a message of 2001 characters>"

\* validateContactForm, evaluated by validationResult(req): the fields that
\* fail their chain; a missing field is validated as the empty string, and
\* message only when it is sent
ContactValidationErrors(b) ==
    LET text(v) == IF v = Absent THEN "" ELSE v
    IN {f \in {"name"} : ~(StrLen(Trim(text(b.name))) >= 2
                           /\ StrLen(Trim(text(b.name))) <= 100)}
       \cup {f \in {"email"} : ~isEmail(text(b.email))}
       \cup {f \in {"subject"} : ~(StrLen(Trim(text(b.subject))) >= 5
                                   /\ StrLen(Trim(text(b.subject))) <= 200)}
       \cup {f \in {"message"} : b.message # Absent
                                 /\ StrLen(Trim(b.message)) > 2000}

\* a handler that lets the notification's error reach its outer catch
ContactAnswer_Propagating(body, calls, mail) ==
    IF mail = "ok"
    THEN [Exchange("contact", body, 200, TRUE, "", calls) EXCEPT !.gateway = <<mail>>]
    ELSE [Exchange("contact", body, 500, FALSE,
                   "Internal server error. Please try again later.", calls)
             EXCEPT !.gateway = <<mail>>]

\* the answer of POST /contact once the notification was attempted: the inner
\* try/catch logs the notification's error, and the answer is the same
ContactAnswer(body, calls, mail) ==
    [Exchange("contact", body, 200, TRUE, "", calls) EXCEPT !.gateway = <<mail>>]

\* POST /contact: contactFormLimiter, validateContactForm, the handler with
\* sendContactNotification(contactData); the fields sent on passed validation,
\* so the notification's own required-field test passes
PostContact ==
    /\ \E ip \in ClientIps, mail \in MailOutcomes,
          body \in [name : {Absent, "Bob"}, email : {"not-an-email", "ann@ex.org"},
                    subject : {"Hi", "Question"},
                    message : {Absent, LongContactMessage}] :
          LET key == <<"contact", ip>>
              send == Call("emails.send", "", 0, body.name, body.email)
          IN /\ RateLimit(key, ContactWindow, ContactMax)
             /\ last' =
                  IF OverLimit(key, ContactWindow, ContactMax)
                  THEN Exchange("contact", body, 429, FALSE,
                                "Too many contact form submissions from this IP, please try again after 15 minutes.",
                                <<>>)
                  ELSE IF ContactValidationErrors(body) # {}
                  THEN Exchange("contact", body, 400, FALSE, "Validation failed", <<>>)
                  ELSE ContactAnswer(body, <<send>>, mail)
    /\ UNCHANGED <<inbox, intents, handlerRuns, files, clock, subscribers, env, served, projects, expressions, nextId, proc, uploadDir>>

\* a JSON array holding one address, as express.json() hands it to the handler
AddressInArray == "<array [ann@ex.org]>"

\* what a request can send as email
SubscribeEmails == {Absent, "not-an-email", "ann@ex.org", "bob@ex.org", AddressInArray}

\* /^\S+@\S+\.\S+$/.test(email): test() matches the string its argument
\* converts to, and an array of one string converts to that string
SubscribeEmailRegex(email) == email \in {"ann@ex.org", "bob@ex.org", AddressInArray}

\* Array.prototype.includes: SameValueZero, which is equality of value for a
\* string and identity for an object; an array parsed from a request is never
\* the object parsed from the file
includes(list, value) ==
    /\ value # AddressInArray
    /\ \E i \in DOMAIN list : list[i] = value

\* a request of POST /subscribe as the model keeps it: what it sent, where its
\* handler stands, and what it was answered
SubscribeRequest(email, phase, status, success, mail) ==
    [email |-> email, phase |-> phase, status |-> status, success |-> success,
     mail |-> mail]

\* POST /subscribe from its start to its first await: the address test,
\* readSubscribers, includes, push, writeSubscribers and the call of
\* sendNewsletterNotification run without a break; a refused request is
\* answered at once
SubscribeReceive ==
    /\ Len(inbox) < MaxSubscribeRequests
    /\ \E email \in SubscribeEmails :
          LET refused(status, error) ==
                /\ inbox' = Append(inbox, SubscribeRequest(email, "done", status,
                                                          FALSE, "none"))
                /\ last' = Exchange("subscribe", [email |-> email], status, FALSE,
                                    error, <<>>)
                /\ UNCHANGED subscribers
          IN IF ~Truthy(email) \/ ~SubscribeEmailRegex(email)
             THEN refused(400, "Invalid email address.")
             ELSE IF includes(subscribers, email)
             THEN refused(409, "Email already subscribed.")
             ELSE /\ subscribers' = Append(subscribers, email)
                  /\ inbox' = Append(inbox, SubscribeRequest(email, "await", 0,
                                                            FALSE, "none"))
                  /\ UNCHANGED last
    /\ UNCHANGED <<intents, handlerRuns, files, clock, hits, env, served, projects, expressions, nextId, proc, uploadDir>>

\* POST /subscribe after the await: the notification was sent or has thrown,
\* the inner try/catch logs the error, and the answer is the same
SubscribeRespond ==
    /\ \E i \in DOMAIN inbox, mail \in MailOutcomes :
          /\ inbox[i].phase = "await"
          /\ inbox' = [inbox EXCEPT ![i] =
                          SubscribeRequest(inbox[i].email, "done", 200, TRUE, mail)]
          /\ last' = [Exchange("subscribe", [email |-> inbox[i].email], 200, TRUE, "",
                               <<Call("emails.send", "", 0, "", inbox[i].email)>>)
                         EXCEPT !.gateway = <<mail>>]
    /\ UNCHANGED <<intents, handlerRuns, files, clock, subscribers, hits, env, served, projects, expressions, nextId, proc, uploadDir>>

InitForms ==
    /\ inbox = <<>>
    /\ intents = <<>>
    /\ last = NoExchange
    /\ handlerRuns = <<>>
    /\ files = {}
    /\ clock = 0
    /\ subscribers = <<>>
    /\ hits = <<>>
    /\ env = "development"
    /\ served = <<>>
    /\ projects = InitialProjects
    /\ expressions = <<>>
    /\ nextId = 1
    /\ proc = ServerListening
    /\ uploadDir = DirectoryReady

NextForms == PostContact \/ SubscribeReceive \/ SubscribeRespond

SpecForms == InitForms /\ [][NextForms]_vars

----------------------------------------------------------------------------
(* Claims on the requests that send a notification *)

\* the subscribe requests whose notification has thrown
NotificationThrew == {i \in DOMAIN inbox : inbox[i].mail = "error"}

AllSubscribeRequestsFinished == \A i \in DOMAIN inbox : inbox[i].phase = "done"

\* C20: under any interleaving of concurrent POST /api/newsletter/subscribe
\* requests, once all requests have finished every address answered with
\* success is in the subscriber file and no address is in the file twice.
C20_NoLostUpdateNoDuplicate ==
    AllSubscribeRequestsFinished
    => /\ \A i \in DOMAIN inbox :
             inbox[i].success
             => \E k \in DOMAIN subscribers : subscribers[k] = inbox[i].email
       /\ \A j, k \in DOMAIN subscribers :
             j # k => subscribers[j] # subscribers[k]

----------------------------------------------------------------------------
(* Claims on what the payment endpoints tell the client of a gateway error *)

PaymentEndpoints ==
    {"create-payment-intent", "confirm-payment", "confirm-payment-v1", "refund"}

\* the provider errors that are not card errors
NonCardErrors == GatewayErrors \ {"StripeCardError"}

\* the response texts that carry error.message of the provider's error
CarriesProviderMessage(error) ==
    error \in {"Card error: <provider message>",
               "Payment confirmation failed: <provider message>",
               "Refund failed: <provider message>"}

----------------------------------------------------------------------------
(* The synthetic triggers: POST /api/webhooks/test, POST                    *)
(* /api/donations/test-email and POST /api/donations/test-resend            *)

Environments == {"development", "production"}

\* `evt_${Date.now()}`
MockEventId(now) == <<"evt_0", "evt_1", "evt_2", "evt_3", "evt_4", "evt_5">>[now + 1]

\* POST /webhooks/test (sanitizeInput, the handler, StripeService.handleWebhook
\* on the mock event); the handlers only log what they are given
WebhookTest(body) ==
    LET ep == "webhooks/test"
        eventType == sanitizeInput(body.eventType)
        handler == HandlerOf(eventType)
    IN last' =
         IF ~Truthy(eventType)
         THEN Exchange(ep, body, 400, FALSE, "Event type is required", <<>>)
         ELSE IF handler = "none"
         THEN Exchange(ep, body, 200, TRUE, "", <<>>)
         ELSE Exchange(ep, body, 200, TRUE, "",
                       <<Call(handler, MockEventId(clock), 0, "", "")>>)

\* POST /test-email: sendDonationConfirmation on test data for the address
TestEmail(body, mail) ==
    LET ep == "test-email"
    IN last' =
         IF ~Truthy(body.email)
         THEN Exchange(ep, body, 400, FALSE, "Email is required", <<>>)
         ELSE IF mail # "ok"
         THEN Exchange(ep, body, 500, FALSE, "Failed to send test email",
                       <<MailCall(body.email)>>)
         ELSE Exchange(ep, body, 200, TRUE, "", <<MailCall(body.email)>>)

\* POST /test-resend: testEmail(email), which requires the address
TestResend(body, mail) ==
    LET ep == "test-resend"
    IN last' =
         IF ~Truthy(body.email)
         THEN Exchange(ep, body, 500, FALSE,
                       "Recipient email is required for testing", <<>>)
         ELSE IF mail # "ok"
         THEN Exchange(ep, body, 500, FALSE, "Failed to send test email: <provider message>",
                       <<MailCall(body.email)>>)
         ELSE Exchange(ep, body, 200, TRUE, "", <<MailCall(body.email)>>)

TestEventTypes ==
    {Absent, "payment_intent.succeeded", "payment_intent.payment_failed",
     "charge.refunded", "customer.created"}

TestAddresses == {Absent, "", "ann@ex.org", "not-an-email"}

PostWebhookTest ==
    /\ \E body \in [eventType : TestEventTypes, eventData : {Absent, "<object>"}] :
          WebhookTest(body)
    /\ UNCHANGED <<inbox, intents, handlerRuns, files, clock, subscribers, hits, env,
                   served, projects, expressions, nextId, proc, uploadDir>>

PostTestEmail ==
    /\ \E body \in [email : TestAddresses], mail \in MailOutcomes :
          TestEmail(body, mail)
    /\ UNCHANGED <<inbox, intents, handlerRuns, files, clock, subscribers, hits, env,
                   served, projects, expressions, nextId, proc, uploadDir>>

PostTestResend ==
    /\ \E body \in [email : TestAddresses], mail \in MailOutcomes :
          TestResend(body, mail)
    /\ UNCHANGED <<inbox, intents, handlerRuns, files, clock, subscribers, hits, env,
                   served, projects, expressions, nextId, proc, uploadDir>>

\* the application started in either environment
InitTriggers ==
    /\ inbox = {}
    /\ intents = <<>>
    /\ last = NoExchange
    /\ handlerRuns = <<>>
    /\ files = {}
    /\ clock = 0
    /\ subscribers = <<>>
    /\ hits = <<>>
    /\ env \in Environments
    /\ served = <<>>
    /\ projects = InitialProjects
    /\ expressions = <<>>
    /\ nextId = 1
    /\ proc = ServerListening
    /\ uploadDir = DirectoryReady

NextTriggers == PostWebhookTest \/ PostTestEmail \/ PostTestResend \/ Tick

SpecTriggers == InitTriggers /\ [][NextTriggers]_vars

TriggerEndpoints == {"webhooks/test", "test-email", "test-resend"}

\* C18: with environment production, a request to POST /api/webhooks/test,
\* POST /api/donations/test-email or POST /api/donations/test-resend neither
\* dispatches a webhook handler nor sends mail.
C18_TriggersInertInProduction ==
    (env = "production" /\ last.endpoint \in TriggerEndpoints)
    => last.calls = <<>>

----------------------------------------------------------------------------
(* validateDonationData and validateRefundData called on any payload *)

\* donationData.donorName.trim(), reached when the donation is not anonymous
\* and donorName is truthy: a TypeError unless donorName is a string
DonorNameTrimThrows(d) ==
    ~TruthyFlag(d.anonymous) /\ Truthy(d.donorName) /\ ~IsString(d.donorName)

\* validator.isUUID(refundData.paymentIntentId), reached when the id is
\* truthy: assertString throws a TypeError unless it is a string
IsUUIDThrows(refundData) ==
    Truthy(refundData.paymentIntentId) /\ ~IsString(refundData.paymentIntentId)

\* a call of validateDonationData: what it returns, or the error it throws
CallValidateDonationData ==
    /\ \E d \in [amount : {Undef, Num(25, 0), Num(20000, 0)},
                 projectId : {Absent, BTrue, "general"},
                 donorName : {Absent, BTrue, "Bob", " "},
                 donorEmail : {Absent, BTrue, "ann@ex.org"},
                 anonymous : {Absent, BTrue, BFalse},
                 message : {Absent, BTrue, LongMessage}] :
          last' = IF DonorNameTrimThrows(d)
                  THEN Exchange("validateDonationData", d, 0, FALSE,
                                "TypeError: donationData.donorName.trim is not a function",
                                <<>>)
                  ELSE Exchange("validateDonationData", d, 0,
                                validateDonationData(d) = {}, "", <<>>)
    /\ UNCHANGED <<inbox, intents, handlerRuns, files, clock, subscribers, hits, env,
                   served, projects, expressions, nextId, proc, uploadDir>>

\* a call of validateRefundData: what it returns, or the error it throws
CallValidateRefundData ==
    /\ \E refundData \in [paymentIntentId : {Absent, BTrue, "pi_1", GoodUuid},
                          amount : {Undef, Num(25, 0), Num(20000, 0)},
                          reason : {Absent, BTrue, "duplicate"}] :
          last' = IF IsUUIDThrows(refundData)
                  THEN Exchange("validateRefundData", refundData, 0, FALSE,
                                "TypeError: Expected a string but received a boolean",
                                <<>>)
                  ELSE Exchange("validateRefundData", refundData, 0,
                                validateRefundData(refundData) = {}, "", <<>>)
    /\ UNCHANGED <<inbox, intents, handlerRuns, files, clock, subscribers, hits, env,
                   served, projects, expressions, nextId, proc, uploadDir>>

NextValidators == CallValidateDonationData \/ CallValidateRefundData

SpecValidators == Init /\ [][NextValidators]_vars

\* C19: validateDonationData and validateRefundData return a result for
\* every payload and never throw, whatever the types of the payload's fields.
C19_ValidatorsNeverThrow ==
    last.endpoint \in {"validateDonationData", "validateRefundData"}
    => last.error = ""

----------------------------------------------------------------------------
(* POST /api/donations/update-project-amount *)

MaxUpdateRequests == 2

\* a number of at most two decimals, in hundredths
Hundredths(v) == v.n * Pow10(2 - v.k)

DatabaseOutcomes == {"ok", "error"}

\* a request of POST /update-project-amount as the model keeps it: what it
\* sent, the row its select returned, where its handler stands, its answer
UpdateRequest(body, project, phase, status, success) ==
    [body |-> body, project |-> project, phase |-> phase, status |-> status,
     success |-> success]

NoProject == [amount_raised |-> 0, supporters |-> 0]

\* newAmountRaised and newSupporters, computed from the row the select returned
UpdatedRow(id, project, amount) ==
    [amount_raised |-> project.amount_raised + Hundredths(ParseFloatValue(amount)),
     supporters |-> project.supporters + 1]

UpdateAnswer(body, status, success, error, calls) ==
    Exchange("update-project-amount", body, status, success, error, calls)

\* POST /update-project-amount up to the answer of its select: the required
\* fields, then select(...).eq('id', projectId).single(), which reports an
\* error when the database fails or no row matches
UpdateProjectAmountFetch ==
    /\ Len(inbox) < MaxUpdateRequests
    /\ \E body \in [projectId : {Absent, "clean-water", "no-such-project"},
                    amount : {Undef, Num(25, 0), Str(<<"5", ".", "5">>)}],
          db \in DatabaseOutcomes :
          LET select == Call("projects.select", body.projectId, 0, "", "")
              refused(status, error, calls) ==
                /\ inbox' = Append(inbox, UpdateRequest(body, NoProject, "done",
                                                      status, FALSE))
                /\ last' = UpdateAnswer(body, status, FALSE, error, calls)
          IN IF ~Truthy(body.projectId) \/ FalsyAmount(body.amount)
             THEN refused(400, "Missing required fields: projectId, amount", <<>>)
             ELSE IF db # "ok" \/ body.projectId \notin DOMAIN projects
             THEN refused(500, "Failed to fetch project", <<select>>)
             ELSE /\ inbox' = Append(inbox, UpdateRequest(body, projects[body.projectId],
                                                        "fetched", 0, FALSE))
                  /\ UNCHANGED last
    /\ UNCHANGED <<intents, handlerRuns, files, clock, subscribers, hits, env, served,
                   projects, expressions, nextId, proc, uploadDir>>

\* POST /update-project-amount from the answer of its select on: the update
\* with the values computed from the fetched row, and the answer
UpdateProjectAmountUpdate ==
    \E i \in DOMAIN inbox, db \in DatabaseOutcomes :
       LET r == inbox[i]
           id == r.body.projectId
           row == UpdatedRow(id, r.project, r.body.amount)
           calls == <<Call("projects.select", id, 0, "", ""),
                      Call("projects.update", id, row.amount_raised, "", "")>>
       IN /\ r.phase = "fetched"
          /\ IF db # "ok"
             THEN /\ inbox' = [inbox EXCEPT ![i] =
                                  UpdateRequest(r.body, r.project, "done", 500, FALSE)]
                  /\ last' = UpdateAnswer(r.body, 500, FALSE,
                                          "Failed to update project", calls)
                  /\ UNCHANGED projects
             ELSE /\ projects' = [projects EXCEPT ![id] = row]
                  /\ inbox' = [inbox EXCEPT ![i] =
                                  UpdateRequest(r.body, r.project, "done", 200, TRUE)]
                  /\ last' = UpdateAnswer(r.body, 200, TRUE, "", calls)
          /\ UNCHANGED <<intents, handlerRuns, files, clock, subscribers, hits, env,
                         served, expressions, nextId, proc, uploadDir>>

NextProjects == UpdateProjectAmountFetch \/ UpdateProjectAmountUpdate

SpecProjects == InitForms /\ [][NextProjects]_vars

\* the sum of the amounts of the requests in inbox[1..n] answered success
RECURSIVE SumAdded(_)
SumAdded(n) ==
    IF n = 0 THEN 0
    ELSE SumAdded(n - 1)
         + (IF inbox[n].success
            THEN Hundredths(ParseFloatValue(inbox[n].body.amount)) ELSE 0)

\* C21: under concurrent POST /api/donations/update-project-amount requests
\* for one project, once all requests are answered amount_raised is its
\* initial value plus the amounts of the requests answered success, and
\* supporters its initial value plus their number.
C21_EachUpdateCountedOnce ==
    (\A i \in DOMAIN inbox : inbox[i].phase = "done")
    => /\ projects["clean-water"].amount_raised
            = InitialProjects["clean-water"].amount_raised + SumAdded(Len(inbox))
       /\ projects["clean-water"].supporters
            = InitialProjects["clean-water"].supporters
              + Cardinality({i \in DOMAIN inbox : inbox[i].success})

----------------------------------------------------------------------------
(* /api/expressions-of-interest: the records held in memory *)

MaxExpressions == 2
MaxExpressionTicks == 1

\* /^[^\s@]+@[^\s@]+\.[^\s@]+$/
ExpressionEmailRegex(s) == s \in {"ann@ex.org", "Ann@Ex.org"}

\* parseInt(id) on a path segment: the value of its leading digits, NaN (here
\* -1, which no record has as id) when it has none
parseInt(s) == IF LeadingDigits(s) = 0 THEN -1
               ELSE DigitsValue(SubSeq(s, 1, LeadingDigits(s)))

\* expressions.findIndex(exp => exp.id === parseInt(id)), 0 for -1
findIndex(id) ==
    IF \E i \in DOMAIN expressions : expressions[i].id = parseInt(id)
    THEN CHOOSE i \in DOMAIN expressions :
            /\ expressions[i].id = parseInt(id)
            /\ \A j \in 1..(i - 1) : expressions[j].id # parseInt(id)
    ELSE 0

validStatuses ==
    {"pending", "reviewed", "contacted", "in_progress", "approved", "rejected"}

\* the list without its element at index i
splice(list, i) == SubSeq(list, 1, i - 1) \o SubSeq(list, i + 1, Len(list))

\* a handler that gives a new record the id after the highest one stored
NewExpressionId_AfterHighest ==
    IF expressions = <<>> THEN 1 ELSE expressions[Len(expressions)].id + 1

\* nextId++ as the id of the new record
NewExpressionId == nextId

\* POST / (sanitizeInput, validateRequest, the handler)
CreateExpression(body) ==
    LET ep == "expressions.post"
        email == sanitizeInput(body.contact_email)
        community == sanitizeInput(body.community_name)
        refused(error) ==
            /\ last' = Exchange(ep, body, 400, FALSE, error, <<>>)
            /\ UNCHANGED <<expressions, nextId>>
    IN IF ~validateRequest(body.contentType, TRUE)
       THEN refused("Content-Type must be application/json")
       ELSE IF ~Truthy(community) \/ ~Truthy(email)
       THEN refused("Missing required fields: community_name, contact_name, contact_email, home_model_id")
       ELSE IF ~ExpressionEmailRegex(email)
       THEN refused("Invalid email address")
       ELSE /\ expressions' = Append(expressions,
                                     [id |-> NewExpressionId, community |-> community,
                                      status |-> "pending", admin_notes |-> Null,
                                      updated_at |-> clock])
            /\ nextId' = nextId + 1
            /\ last' = Exchange(ep, body, 201, TRUE, "", <<>>)

\* PATCH /:id (sanitizeInput, validateRequest, the handler)
PatchExpression(id, body) ==
    LET ep == "expressions.patch"
        req == [id |-> id, status |-> body.status, admin_notes |-> body.admin_notes,
                contentType |-> body.contentType]
        status == sanitizeInput(body.status)
        admin_notes == sanitizeInput(body.admin_notes)
        hasKeys == body.status # Absent \/ body.admin_notes # Absent
        i == findIndex(id)
    IN /\ UNCHANGED nextId
       /\ IF ~validateRequest(body.contentType, hasKeys)
          THEN /\ last' = Exchange(ep, req, 400, FALSE,
                                   "Content-Type must be application/json", <<>>)
               /\ UNCHANGED expressions
          ELSE IF i = 0
          THEN /\ last' = Exchange(ep, req, 404, FALSE,
                                   "Expression of interest not found", <<>>)
               /\ UNCHANGED expressions
          ELSE IF Truthy(status) /\ status \notin validStatuses
          THEN /\ last' = Exchange(ep, req, 400, FALSE, "Invalid status", <<>>)
               /\ UNCHANGED expressions
          ELSE /\ expressions' =
                    [expressions EXCEPT
                       ![i].status = IF Truthy(status) THEN status ELSE @,
                       ![i].admin_notes = IF admin_notes # Absent THEN admin_notes ELSE @,
                       ![i].updated_at = clock]
               /\ last' = Exchange(ep, req, 200, TRUE, "", <<>>)

\* GET /:id
GetExpression(id) ==
    /\ UNCHANGED <<expressions, nextId>>
    /\ last' = IF findIndex(id) = 0
               THEN Exchange("expressions.get", [id |-> id], 404, FALSE,
                             "Expression of interest not found", <<>>)
               ELSE Exchange("expressions.get", [id |-> id], 200, TRUE, "", <<>>)

\* DELETE /:id
DeleteExpression(id) ==
    /\ UNCHANGED nextId
    /\ IF findIndex(id) = 0
       THEN /\ last' = Exchange("expressions.delete", [id |-> id], 404, FALSE,
                                "Expression of interest not found", <<>>)
            /\ UNCHANGED expressions
       ELSE /\ expressions' = splice(expressions, findIndex(id))
            /\ last' = Exchange("expressions.delete", [id |-> id], 200, TRUE, "", <<>>)

\* the ids a request path can carry
PathIds == {<<"1">>, <<"2">>, <<"1", "a">>, <<"a">>}

PostExpression ==
    /\ nextId <= MaxExpressions
    /\ \E body \in [community_name : {Absent, "Eagle Lake"},
                    contact_email : {"not-an-email", "ann@ex.org"},
                    contentType : {JsonType, FormType}] :
          CreateExpression(body)
    /\ UNCHANGED <<inbox, intents, handlerRuns, files, clock, subscribers, hits, env,
                   served, projects, proc, uploadDir>>

PatchExpressionRoute ==
    /\ \E id \in PathIds,
          body \in [status : {Absent, "approved", "archived"},
                    admin_notes : {Absent, "called"},
                    contentType : {JsonType, FormType}] :
          PatchExpression(id, body)
    /\ UNCHANGED <<inbox, intents, handlerRuns, files, clock, subscribers, hits, env,
                   served, projects, proc, uploadDir>>

GetExpressionRoute ==
    /\ \E id \in PathIds : GetExpression(id)
    /\ UNCHANGED <<inbox, intents, handlerRuns, files, clock, subscribers, hits, env,
                   served, projects, proc, uploadDir>>

DeleteExpressionRoute ==
    /\ \E id \in PathIds : DeleteExpression(id)
    /\ UNCHANGED <<inbox, intents, handlerRuns, files, clock, subscribers, hits, env,
                   served, projects, proc, uploadDir>>

\* time passing between the requests
ExpressionsTick ==
    /\ clock < MaxExpressionTicks
    /\ clock' = clock + 1
    /\ UNCHANGED <<inbox, intents, last, handlerRuns, files, subscribers, hits, env,
                   served, projects, expressions, nextId, proc, uploadDir>>

NextExpressions ==
    \/ PostExpression
    \/ PatchExpressionRoute
    \/ GetExpressionRoute
    \/ DeleteExpressionRoute
    \/ ExpressionsTick

SpecExpressions == Init /\ [][NextExpressions]_vars

----------------------------------------------------------------------------
(* Claims on the expressions of interest *)

StoredIds == {expressions[i].id : i \in DOMAIN expressions}

\* C28: after any sequence of create, update and delete operations the
\* stored records have pairwise distinct ids, ids are assigned in strictly
\* increasing order, and the id of a deleted record is never assigned again:
\* every id ever assigned is below nextId, and a new record gets nextId.
C28_IdsDistinctIncreasingNeverReused ==
    /\ [](/\ \A i, j \in DOMAIN expressions :
                i < j => expressions[i].id < expressions[j].id
          /\ \A i \in DOMAIN expressions : expressions[i].id < nextId)
    /\ [][/\ nextId' >= nextId
          /\ \A i \in DOMAIN expressions' :
                expressions'[i].id \notin StoredIds
                => (expressions'[i].id >= nextId /\ expressions'[i].id < nextId')]_vars

\* a record was deleted and a record created after it is stored
C28_Witness ==
    /\ Len(expressions) = 1
    /\ expressions[1].id = 2
    /\ nextId = 3

\* the decimal spelling of a stored id, as a path segment
StoredPathIds == {NumberToString(expressions[i].id) : i \in DOMAIN expressions}

\* C29: every stored expression of interest has a status of the valid set,
\* pending when created; a PATCH with a status outside the set is answered
\* 400 and a PATCH, GET or DELETE for an id that is not stored is answered 404,
\* both leaving the collection as it was.
C29_StatusValidAndRefusalsInert ==
    /\ [](\A i \in DOMAIN expressions : expressions[i].status \in validStatuses)
    /\ [][/\ \A i \in DOMAIN expressions' :
                expressions'[i].id \notin StoredIds
                => expressions'[i].status = "pending"
          /\ (/\ last' # last
              /\ last'.endpoint = "expressions.patch"
              /\ last'.body.contentType = JsonType
              /\ last'.body.id \in StoredPathIds
              /\ last'.body.status \notin validStatuses \cup {Absent})
             => (last'.status = 400 /\ expressions' = expressions)
          /\ (/\ last' # last
              /\ \/ last'.endpoint \in {"expressions.get", "expressions.delete"}
                 \/ /\ last'.endpoint = "expressions.patch"
                    /\ last'.body.contentType = JsonType
              /\ last'.body.id \notin StoredPathIds)
             => (last'.status = 404 /\ expressions' = expressions)]_vars

----------------------------------------------------------------------------
(* StripeService.handleWebhook among the requests that persist something *)

\* the calls a handler issues beyond its log line when it also mails the donor
HandlerCalls_Mailing(handler) ==
    IF handler = "handlePaymentSucceeded" THEN <<MailCall("")>> ELSE <<>>

\* the gateway and mail calls handlePaymentSucceeded, handlePaymentFailed and
\* handleRefund issue: they log and return
HandlerCalls(handler) == <<>>

WebhookEventTypes ==
    {"payment_intent.succeeded", "payment_intent.payment_failed",
     "charge.refunded", "customer.created"}

\* handleWebhook(event): the switch on event.type and the handler it awaits
handleWebhook(event) ==
    LET handler == HandlerOf(event.type)
    IN last' = Exchange("handleWebhook", event, 0, TRUE, "",
                        IF handler = "none" THEN <<>>
                        ELSE <<Call(handler, event.id, 0, "", "")>>
                             \o HandlerCalls(handler))

CallHandleWebhook ==
    /\ \E type \in WebhookEventTypes :
          handleWebhook([id |-> "evt_1", type |-> type])
    /\ UNCHANGED <<inbox, intents, handlerRuns, files, clock, subscribers, hits, env,
                   served, projects, expressions, nextId, proc, uploadDir>>

NextWebhookEffects ==
    \/ CallHandleWebhook
    \/ SubscribeReceive
    \/ SubscribeRespond
    \/ PostExpression
    \/ GenerateReceipt

SpecWebhookEffects == InitForms /\ [][NextWebhookEffects]_vars

WebhookHandlers == {"handlePaymentSucceeded", "handlePaymentFailed", "handleRefund"}

\* C22: handling a webhook event leaves the subscriber file, the expressions
\* of interest and the stored receipt files unchanged and issues no gateway or
\* mail call, for every event type.
C22_WebhookHandlingPersistsNothing ==
    [][(last' # last /\ last'.endpoint = "handleWebhook")
       => /\ subscribers' = subscribers
          /\ expressions' = expressions
          /\ files' = files
          /\ \A i \in DOMAIN last'.calls : last'.calls[i].api \in WebhookHandlers]_vars

\* a handler has run while a subscriber, an expression of interest and a
\* receipt file were stored
C22_Witness ==
    /\ last.endpoint = "handleWebhook"
    /\ last.calls # <<>>
    /\ subscribers # <<>>
    /\ expressions # <<>>
    /\ files # {}

----------------------------------------------------------------------------
(* ReceiptService from its construction: the directory and the write streams *)

MaxReceiptCalls == 2

\* `refund-${refundData.refundId}-${Date.now()}.pdf` under the upload path
GeneratedRefundReceiptPath(refundId, now) ==
    uploadPath \o <<"refund-">> \o refundId \o <<"-">>
        \o NumberToString(now) \o <<".pdf">>

\* filePath of a generateReceipt or generateRefundReceipt call made now
ReceiptFilePath(op, id) ==
    IF op = "generateReceipt" THEN GeneratedReceiptPath(id, clock)
    ELSE GeneratedRefundReceiptPath(id, clock)

ReceiptOperations == {"generateReceipt", "generateRefundReceipt"}

\* the constructor has returned: fs.mkdir(uploadPath, {recursive: true}) is
\* under way, and the directory is there or not from before
InitReceiptService ==
    /\ inbox = <<>>
    /\ intents = <<>>
    /\ last = NoExchange
    /\ handlerRuns = <<>>
    /\ files = {}
    /\ clock = 0
    /\ subscribers = <<>>
    /\ hits = <<>>
    /\ env = "development"
    /\ served = <<>>
    /\ projects = InitialProjects
    /\ expressions = <<>>
    /\ nextId = 1
    /\ proc = ServerListening
    /\ uploadDir \in [exists : BOOLEAN, mkdir : {"pending"}]

\* ensureUploadDirectory settles: the directory is made, or the error is
\* logged and swallowed
MkdirSettles ==
    /\ uploadDir.mkdir = "pending"
    /\ \E outcome \in {"ok", "error"} :
          uploadDir' = IF outcome = "ok" THEN DirectoryReady
                       ELSE [exists |-> uploadDir.exists, mkdir |-> "failed"]
    /\ UNCHANGED <<inbox, intents, last, handlerRuns, files, clock, subscribers, hits,
                   env, served, projects, expressions, nextId, proc>>

\* generateReceipt or generateRefundReceipt up to the promise it returns: the
\* file name from the id and Date.now(), and createWriteStream(filePath); the
\* call records whether the directory was there when the stream was created
ReceiptStreamCreated ==
    /\ Len(inbox) < MaxReceiptCalls
    /\ \E op \in ReceiptOperations, id \in {<<"pi_1">>} :
          inbox' = Append(inbox, [op |-> op, id |-> id,
                                  filePath |-> ReceiptFilePath(op, id),
                                  directory |-> uploadDir.exists])
    /\ UNCHANGED <<intents, last, handlerRuns, files, clock, subscribers, hits, env,
                   served, projects, expressions, nextId, proc, uploadDir>>

\* the write stream of a call emits finish, which takes the directory to be
\* there, or error; the promise settles
ReceiptStreamSettles ==
    /\ \E i \in DOMAIN inbox, stream \in {"finish", "error"} :
          /\ stream = "finish" => uploadDir.exists
          /\ stream = "finish"
                => (inbox[i].filePath \in files \/ Cardinality(files) < MaxReceipts)
          /\ files' = IF stream = "finish" THEN files \cup {inbox[i].filePath}
                      ELSE files
          /\ last' = ReceiptCall(inbox[i].op, inbox[i].id, stream = "finish",
                                 IF stream = "finish" THEN inbox[i].filePath ELSE <<>>)
          /\ inbox' = splice(inbox, i)
    /\ UNCHANGED <<intents, handlerRuns, clock, subscribers, hits, env, served,
                   projects, expressions, nextId, proc, uploadDir>>

NextReceiptService ==
    \/ MkdirSettles
    \/ ReceiptStreamCreated
    \/ ReceiptStreamSettles
    \/ Tick

SpecReceiptService == InitReceiptService /\ [][NextReceiptService]_vars

\* C23: the receipt directory exists before any receipt file is opened for
\* writing: every write stream was created with the directory there.
C23_DirectoryBeforeStream ==
    \A i \in DOMAIN inbox : inbox[i].directory

\* C24: no two generateReceipt or generateRefundReceipt calls write to the
\* same file path, and no call writes to the path of a receipt that exists.
C24_ReceiptPathsUnique ==
    /\ \A i, j \in DOMAIN inbox : i # j => inbox[i].filePath # inbox[j].filePath
    /\ \A i \in DOMAIN inbox : inbox[i].filePath \notin files

----------------------------------------------------------------------------
(* The success flag of a confirmation *)

\* C25: POST /confirm-payment built on StripeService.confirmPayment answers
\* success = true only when the status the gateway answered the confirm
\* call with is succeeded
C25_SuccessOnlyWhenSucceeded ==
    (last.endpoint = "confirm-payment-v1" /\ last.success = TRUE)
        => last.seen.status = "succeeded"

----------------------------------------------------------------------------
(* POST /subscribe over a subscriber file that can fail to be read *)

\* how reading newsletter-subscribers.json can go: it is read and parsed, or
\* readFileSync or JSON.parse throws
FileReadOutcomes == {"ok", "unreadable"}

\* readSubscribers: the parsed file, and [] from the catch when the read or
\* the parse throws
readSubscribers(outcome) == IF outcome = "ok" THEN subscribers ELSE <<>>

\* POST /subscribe from its start to its first await, with the outcome of
\* reading the file as an input; writeSubscribers replaces the file with the
\* list readSubscribers returned plus the new address
SubscribeReceiveReading ==
    /\ Len(inbox) < MaxSubscribeRequests
    /\ \E email \in SubscribeEmails, read \in FileReadOutcomes :
          LET stored == readSubscribers(read)
              refused(status, error) ==
                /\ inbox' = Append(inbox, SubscribeRequest(email, "done", status,
                                                          FALSE, "none"))
                /\ last' = Exchange("subscribe", [email |-> email], status, FALSE,
                                    error, <<>>)
                /\ UNCHANGED subscribers
          IN IF ~Truthy(email) \/ ~SubscribeEmailRegex(email)
             THEN refused(400, "Invalid email address.")
             ELSE IF includes(stored, email)
             THEN refused(409, "Email already subscribed.")
             ELSE /\ subscribers' = Append(stored, email)
                  /\ inbox' = Append(inbox, SubscribeRequest(email, "await", 0,
                                                            FALSE, "none"))
                  /\ UNCHANGED last
    /\ UNCHANGED <<intents, handlerRuns, files, clock, hits, env, served, projects,
                   expressions, nextId, proc, uploadDir>>

NextSubscriberFile == SubscribeReceiveReading \/ SubscribeRespond

SpecSubscriberFile == InitForms /\ [][NextSubscriberFile]_vars

\* C26: POST /subscribe never removes a stored subscriber: every address in
\* the file before a step is in the file after it, also when the file could
\* not be read or parsed
C26_SubscribersNeverRemoved ==
    [][\A k \in DOMAIN subscribers :
          \E j \in DOMAIN subscribers' : subscribers'[j] = subscribers[k]]_vars

----------------------------------------------------------------------------
(* POST /api/webhooks/stripe without a webhook secret *)

\* a delivery while STRIPE_WEBHOOK_SECRET is not set, to the router on its own
\* or through the application
PostStripeWebhookNoSecret ==
    /\ \E stack \in Stacks, req \in WebhookRequests :
          LET a == StripeWebhookAnswerWith(stack, req, Absent)
              id == IF a.calls = <<>> THEN "" ELSE a.calls[1].id
          IN /\ a.calls # <<>> => handlerRuns[id] < MaxDeliveries
             /\ last' = Exchange("webhooks/stripe",
                                 [stack |-> stack, sig |-> req.sig,
                                  contentType |-> req.contentType,
                                  bytes |-> req.bytes],
                                 a.status, a.received, a.error, a.calls)
             /\ handlerRuns' = IF a.calls = <<>> THEN handlerRuns
                               ELSE [handlerRuns EXCEPT ![id] = @ + 1]
    /\ UNCHANGED <<inbox, intents, files, clock, subscribers, hits, env, served,
                   projects, expressions, nextId, proc, uploadDir>>

SpecWebhookNoSecret == InitWebhook /\ [][PostStripeWebhookNoSecret]_vars

\* C27: without a webhook secret every delivery to POST /api/webhooks/stripe
\* is answered 400 and no webhook handler is invoked
C27_NoSecretFailsClosed ==
    /\ \A id \in EventIds : handlerRuns[id] = 0
    /\ (last.endpoint = "webhooks/stripe"
           => (last.status = 400 /\ last.calls = <<>>))

\* the same with the router mounted on its own, where no parser runs before
\* the route's
NoSecretFailsClosedAtRouter ==
    /\ \A id \in EventIds : handlerRuns[id] = 0
    /\ ((last.endpoint = "webhooks/stripe" /\ last.body.stack = "router")
           => (last.status = 400 /\ last.calls = <<>>))

\* through either mounting no handler runs and nothing is accepted
NoSecretNothingAccepted ==
    /\ \A id \in EventIds : handlerRuns[id] = 0
    /\ (last.endpoint = "webhooks/stripe"
           => (last.status \in {400, 500} /\ last.calls = <<>>))

----------------------------------------------------------------------------
(* Shutdown of the server process.  The clock counts ticks of five seconds. *)

MaxConnections == 2

MaxSignals == 2

MaxShutdownClock == 2

ForceCloseDelay == 2     \* setTimeout(..., 10000), in ticks

ShutdownSignals == {"SIGTERM", "SIGINT"}

\* process.exit(code)
exit(code, cause) == [proc EXCEPT !.state = "exited", !.code = code, !.cause = cause]

\* a shutdown that sets no timer
gracefulShutdown_WithoutTimer(signal) ==
    [proc EXCEPT !.listening = FALSE,
                 !.closeCallbacks = @ + 1,
                 !.signals = Append(@, signal)]

\* gracefulShutdown: server.close stops the server accepting and registers
\* the callback for its 'close' event, and a timer is set that forces the
\* exit
gracefulShutdown(signal) ==
    [proc EXCEPT !.listening = FALSE,
                 !.closeCallbacks = @ + 1,
                 !.timers = @ \cup {clock + ForceCloseDelay},
                 !.signals = Append(@, signal)]

\* process.on('SIGTERM' | 'SIGINT')
Signal ==
    /\ proc.state = "running"
    /\ Len(proc.signals) < MaxSignals
    /\ \E signal \in ShutdownSignals : proc' = gracefulShutdown(signal)
    /\ UNCHANGED <<inbox, intents, last, handlerRuns, files, clock, subscribers,
                   hits, env, served, projects, expressions, nextId, uploadDir>>

\* a client connects to the listening server
ConnectionOpens ==
    /\ proc.state = "running"
    /\ proc.listening
    /\ proc.connections < MaxConnections
    /\ proc' = [proc EXCEPT !.connections = @ + 1]
    /\ UNCHANGED <<inbox, intents, last, handlerRuns, files, clock, subscribers,
                   hits, env, served, projects, expressions, nextId, uploadDir>>

\* a connection ends; a kept-alive connection may never do so
ConnectionEnds ==
    /\ proc.state = "running"
    /\ proc.connections > 0
    /\ proc' = [proc EXCEPT !.connections = @ - 1]
    /\ UNCHANGED <<inbox, intents, last, handlerRuns, files, clock, subscribers,
                   hits, env, served, projects, expressions, nextId, uploadDir>>

\* the server's 'close' event, emitted once it has stopped accepting and its
\* last connection has ended: the callback given to server.close exits with 0
ServerClosed ==
    /\ proc.state = "running"
    /\ ~proc.listening
    /\ proc.connections = 0
    /\ proc.closeCallbacks > 0
    /\ proc' = exit(0, "closed")
    /\ UNCHANGED <<inbox, intents, last, handlerRuns, files, clock, subscribers,
                   hits, env, served, projects, expressions, nextId, uploadDir>>

\* the timer set by gracefulShutdown, once its delay has passed
ForcedShutdown ==
    /\ proc.state = "running"
    /\ \E due \in proc.timers : due <= clock
    /\ proc' = exit(1, "timer")
    /\ UNCHANGED <<inbox, intents, last, handlerRuns, files, clock, subscribers,
                   hits, env, served, projects, expressions, nextId, uploadDir>>

\* process.on('uncaughtException')
UncaughtException ==
    /\ proc.state = "running"
    /\ proc' = exit(1, "uncaughtException")
    /\ UNCHANGED <<inbox, intents, last, handlerRuns, files, clock, subscribers,
                   hits, env, served, projects, expressions, nextId, uploadDir>>

\* process.on('unhandledRejection')
UnhandledRejection ==
    /\ proc.state = "running"
    /\ proc' = exit(1, "unhandledRejection")
    /\ UNCHANGED <<inbox, intents, last, handlerRuns, files, clock, subscribers,
                   hits, env, served, projects, expressions, nextId, uploadDir>>

\* time passes while the process runs; the model stops the clock once no
\* timer is waiting for it
ShutdownTick ==
    /\ proc.state = "running"
    /\ clock < MaxShutdownClock \/ \E due \in proc.timers : clock < due
    /\ clock' = clock + 1
    /\ UNCHANGED <<inbox, intents, last, handlerRuns, files, subscribers, hits, env,
                   served, projects, expressions, nextId, proc, uploadDir>>

NextShutdown ==
    \/ Signal
    \/ ConnectionOpens
    \/ ConnectionEnds
    \/ ServerClosed
    \/ ForcedShutdown
    \/ UncaughtException
    \/ UnhandledRejection
    \/ ShutdownTick

SpecShutdown == InitForms /\ [][NextShutdown]_vars

\* the event loop runs a callback that is due, and time passes
SpecShutdownFair ==
    /\ SpecShutdown
    /\ WF_vars(ServerClosed)
    /\ WF_vars(ForcedShutdown)
    /\ WF_vars(ShutdownTick)

\* C30: after SIGTERM or SIGINT the process eventually exits, with code 0
\* only through the server's close callback after the signal and with code 1
\* when the forced-shutdown timer fires first; an uncaught exception or an
\* unhandled rejection exits the process with code 1
C30_ShutdownTerminates ==
    /\ (proc.signals # <<>>) ~> (proc.state = "exited")
    /\ [](proc.state = "exited" =>
            /\ proc.code \in {0, 1}
            /\ (proc.code = 0) <=> (proc.cause = "closed")
            /\ (proc.cause = "closed") =>
                  (proc.signals # <<>> /\ ~proc.listening /\ proc.connections = 0)
            /\ (proc.cause = "timer") =>
                  (proc.signals # <<>> /\ \E due \in proc.timers : due <= clock))
    /\ [][(UncaughtException \/ UnhandledRejection)
            => (proc'.state = "exited" /\ proc'.code = 1)]_vars
    /\ [][(proc.signals # <<>> /\ proc.state = "running" /\ proc'.state = "exited")
            => \/ proc'.code = 0 /\ ServerClosed
               \/ proc'.code = 1
                  /\ (ForcedShutdown \/ UncaughtException \/ UnhandledRejection)]_vars

\* a shutdown forced by the timer while a connection stayed open
C30_Witness ==
    /\ proc.state = "exited"
    /\ proc.cause = "timer"
    /\ proc.code = 1
    /\ proc.connections > 0
    /\ proc.signals # <<>>

====
